---- MODULE Spec2Model ----
(***************************************************************************)
(* Model of the IELTS speaking-interview bot.                              *)
(*                                                                         *)
(*  - the browser client (client/app.js, kept as src/unnamed/part_001):    *)
(*    startInterview, cleanup, the data channel callbacks, the realtime    *)
(*    event handlers and the push-to-talk handlers;                        *)
(*  - the session endpoint POST /api/realtime/call of src/server/server.js *)
(*    and of the second server file kept as src/unnamed/part_002;          *)
(*  - the retrieval side: pdfProcessor.js, vectorStore.js, retriever.js    *)
(*    and the routes of server.js that call them.                          *)
(*                                                                         *)
(* Spec       : one browser client talking to the session endpoint and to  *)
(*              the realtime collaborator.                                 *)
(* SpecServer : the upload, delete and search requests of server.js on the *)
(*              ChromaDB collection.                                       *)
(* SpecStats  : GET /api/materials/stats among uploads and deletes.        *)
(* SpecRelevance : hasRelevantMaterials of retriever.js among uploads.     *)
(* SpecChunk  : chunkText of pdfProcessor.js, pass by pass.                *)
(***************************************************************************)
EXTENDS Integers, Sequences, FiniteSets, TLC

\* ------------------------------------------------------------------ bounds
MaxTurns == 2
MaxFrags == 2
MaxSessions == 2
MaxInvocations == 2
MaxClicks == 3

\* ------------------------------------------------------------------ state
VARIABLES
    \* client/app.js: the `state` object, lines 13-23
    pc,                 \* where startInterview is suspended: idle | mic | cred | sdp
    localStream,        \* state.localStream is a live MediaStream
    micEnabled,         \* track.enabled of the local audio track
    peerConnection,     \* state.peerConnection is non-null
    dataChannel,        \* state.dataChannel and its readyState: null | connecting | open | closed
    sessionId,          \* state.sessionId (0 = null)
    ephemeralKey,       \* the local const ephemeralKey of startInterview (0 = none)
    isConnected,
    isTalking,
    startDisabled,      \* elements.startButton.disabled
    remoteMuted,        \* elements.remoteAudio.muted
    currentQuestion,    \* elements.currentQuestion.textContent
    currentAssistantTranscript,  \* the module-level accumulation buffer, line 351
    \* what the last handler did
    lastOp,             \* the handler that ran last
    out,                \* the events dataChannel.send() was given by the last handler
    logged,             \* the entries addLogEntry pushed during the last handler
    prevTurn,           \* TurnState when the last handler started
    evStale,            \* the event it handled belonged to a turn already cancelled
    \* the realtime collaborator at the other end of the data channel
    turnNo,             \* id of the latest agent turn it was asked for (0 = none)
    agentTurn,          \* that turn: none | requested | speaking
    fragNo,             \* fragments of that turn delivered so far
    staleTurn,          \* id of a cancelled turn whose events may still arrive (0 = none)
    staleFragNo,        \* fragments of the cancelled turn delivered so far
    \* the session endpoint
    serverImpl,         \* which server file serves /api/realtime/call: "rag" | "basic"
    serverLog,          \* the values the server wrote to the console
    sessionRequests,    \* the session-creation requests the last createSession submitted
    httpResponse,       \* the response of the last createSession
    nSessions,          \* sessions the conversational collaborator created
    respStatus,         \* status of the response startInterview read last (0 = none)
    retrieval,          \* how the bootstrap retrieval of the last createSession went
    usedKeys,           \* the credentials presented in an offer/answer exchange
    \* the retrieval side of server.js
    index,              \* the records of the ChromaDB collection, in insertion order
    clock,              \* Date.now()
    uploads,            \* the POST /api/upload-pdf requests, by slot
    pendingDelete,      \* the DELETE /api/materials/:id request between its get and its delete
    reply,              \* the response of the last retrieval-side request
    lastCall,           \* the last call of getStats or hasRelevantMaterials and its result
    calls,              \* the requests the last retrieval-side step sent to its collaborators
    \* chunkText of pdfProcessor.js, one step per pass of its loop
    chunkPc,            \* idle | loop | returned
    cleanText,          \* the normalized text, a sequence of characters
    chunkSize,
    overlap,
    startIndex,
    chunkList,          \* the local array chunks: the chunks pushed so far
    spans,              \* for each pushed chunk, the slice [from, to) of cleanText it is
    starts,             \* startIndex at the beginning of each pass so far
    \* startInterview of app.js when the start button is clicked again during setup
    invocations,        \* for each invocation of startInterview, the await it is at and
                        \* whether its local ephemeralKey is set
    openStreams,        \* MediaStreams obtained from getUserMedia and not stopped
    openConns,          \* RTCPeerConnections constructed and not closed
    clicks              \* accepted clicks of the start button

clientVars == <<pc, localStream, micEnabled, peerConnection, dataChannel, sessionId,
                ephemeralKey, isConnected, isTalking, startDisabled, remoteMuted,
                currentQuestion, currentAssistantTranscript>>
histVars == <<lastOp, out, logged, prevTurn, evStale>>
remoteVars == <<turnNo, agentTurn, fragNo, staleTurn, staleFragNo>>
serverVars == <<serverImpl, serverLog, sessionRequests, httpResponse, nSessions, usedKeys,
                respStatus, retrieval>>
indexVars == <<index, clock, uploads, pendingDelete, reply, lastCall, calls>>
chunkVars == <<chunkPc, cleanText, chunkSize, overlap, startIndex, chunkList, spans, starts>>
overlapVars == <<invocations, openStreams, openConns, clicks>>
vars == <<clientVars, histVars, remoteVars, serverVars, indexVars, chunkVars, overlapVars>>

\* ------------------------------------------------------------------ values
FileNames == {"notes.pdf", "tips.pdf"}
Queries == {1, 2}

\* An async function either returns a value or throws.
Throw(m) == [threw |-> TRUE, message |-> m, value |-> 0]
Return(v) == [threw |-> FALSE, message |-> "", value |-> v]

\* ------------------------------------------------------------------ retriever.js
\* The embedding collaborator maps a text to its vector; texts and vectors are
\* small integers, and the vector of text t is 10 * t.
EmbeddingOf(t) == 10 * t

\* generateQueryEmbedding: embedOutcome is what openai.embeddings.create does.
generateQueryEmbedding(query, apiKey, embedOutcome) ==
    IF ~apiKey THEN Throw("API Key required for generating embeddings")
    ELSE IF embedOutcome = "reject" THEN Throw("embedding request rejected")
    ELSE Return(EmbeddingOf(query))

\* [...new Set(results.map(r => r.metadata.fileName))]: first-seen order, no duplicate.
RECURSIVE UniqueSources(_)
UniqueSources(results) ==
    IF results = <<>> THEN <<>>
    ELSE LET init == UniqueSources(SubSeq(results, 1, Len(results) - 1))
             f == results[Len(results)].metadata.fileName
         IN IF \E i \in 1..Len(init) : init[i] = f THEN init ELSE Append(init, f)

NoContext(err) ==
    [hasContext |-> FALSE, context |-> <<>>, sources |-> <<>>, results |-> <<>>,
     error |-> err]

\* The body of retrieveContext's try block: what it returns, or what it throws.
\* searched is what searchSimilar did: a thrown error or the formatted rows.
retrieveContextTryNoEmptyCase(query, apiKey, embedOutcome, searched) ==
    LET emb == generateQueryEmbedding(query, apiKey, embedOutcome)
    IN  IF emb.threw THEN Throw(emb.message)
        ELSE IF searched.threw THEN Throw(searched.message)
        ELSE LET rs == searched.value
             IN Return(
                 [hasContext |-> TRUE,
                  context |-> [i \in 1..Len(rs) |->
                                 [source |-> i, fileName |-> rs[i].metadata.fileName,
                                  text |-> rs[i].text]],
                  sources |-> UniqueSources(rs),
                  results |-> [i \in 1..Len(rs) |->
                                 [text |-> rs[i].text, fileName |-> rs[i].metadata.fileName,
                                  chunkIndex |-> rs[i].metadata.chunkIndex,
                                  relevanceScore |-> 1 - rs[i].distance]],
                  error |-> ""])

retrieveContextTry(query, apiKey, embedOutcome, searched) ==
    LET emb == generateQueryEmbedding(query, apiKey, embedOutcome)
    IN  IF emb.threw THEN Throw(emb.message)
        ELSE IF searched.threw THEN Throw(searched.message)
        ELSE IF Len(searched.value) = 0 THEN Return(NoContext(""))
        ELSE LET rs == searched.value
             IN Return(
                 [hasContext |-> TRUE,
                  context |-> [i \in 1..Len(rs) |->
                                 [source |-> i, fileName |-> rs[i].metadata.fileName,
                                  text |-> rs[i].text]],
                  sources |-> UniqueSources(rs),
                  results |-> [i \in 1..Len(rs) |->
                                 [text |-> rs[i].text, fileName |-> rs[i].metadata.fileName,
                                  chunkIndex |-> rs[i].metadata.chunkIndex,
                                  relevanceScore |-> 1 - rs[i].distance]],
                  error |-> ""])

\* retrieveContext: the try block, and the catch that turns a throw into a value.
retrieveContextNoCatch(query, apiKey, embedOutcome, searched) ==
    retrieveContextTry(query, apiKey, embedOutcome, searched)

retrieveContext(query, apiKey, embedOutcome, searched) ==
    LET r == retrieveContextTry(query, apiKey, embedOutcome, searched)
    IN  IF r.threw THEN Return(NoContext(r.message)) ELSE r

\* hasRelevantMaterials, lines 114-127: retrieveContext for one result, then the
\* score of the first result against the threshold; false when it caught a throw.
hasRelevantMaterialsAbove(query, threshold, apiKey, embedOutcome, searched) ==
    LET context == retrieveContext(query, apiKey, embedOutcome, searched)
    IN  IF context.threw THEN FALSE
        ELSE IF ~context.value.hasContext \/ Len(context.value.results) = 0 THEN FALSE
        ELSE context.value.results[1].relevanceScore > threshold

hasRelevantMaterials(query, threshold, apiKey, embedOutcome, searched) ==
    LET context == retrieveContext(query, apiKey, embedOutcome, searched)
    IN  IF context.threw THEN FALSE
        ELSE IF ~context.value.hasContext \/ Len(context.value.results) = 0 THEN FALSE
        ELSE context.value.results[1].relevanceScore >= threshold

\* The requests retrieveContext sends, in order: generateQueryEmbedding throws
\* before any request without an API key (lines 11-13), and searchSimilar is
\* reached only with the embedding.
retrieveContextCallsKeyUnchecked(apiKey, embedOutcome) ==
    IF embedOutcome = "reject" THEN <<"embeddings.create">>
    ELSE <<"embeddings.create", "coll.query">>

retrieveContextCalls(apiKey, embedOutcome) ==
    IF ~apiKey THEN <<>>
    ELSE IF embedOutcome = "reject" THEN <<"embeddings.create">>
    ELSE <<"embeddings.create", "coll.query">>

\* formatContextForAI: header + source list + context + footer, or '' without context.
formatContextForAI(retrievedContext) ==
    IF ~retrievedContext.hasContext THEN [sources |-> <<>>, content |-> <<>>]
    ELSE [sources |-> retrievedContext.sources, content |-> retrievedContext.context]


\* ------------------------------------------------------------------ POST /api/realtime/call
\* The values the conversational collaborator returns for its n-th session.
SessionIdOf(n) == <<"sess", n>>
CredentialOf(n) == <<"ek", n>>
ExpiryOf(n) == <<"exp", n>>

BaseInstructions == "IELTS_INSTRUCTIONS"

\* What the conversational collaborator may answer: ok, a non-success status with
\* a body, or no answer at all (fetch rejects).
CollabAnswers ==
    {[kind |-> "ok", status |-> 200, body |-> "session"],
     [kind |-> "notok", status |-> 401, body |-> "invalid_api_key"],
     [kind |-> "notok", status |-> 429, body |-> "rate_limited"],
     [kind |-> "unreachable", status |-> 0, body |-> ""]}

\* config.instructions || IELTS_INSTRUCTIONS: '' and undefined fall back to the template.
ResolveInstructionsTemplateOnly(override) == BaseInstructions

ResolveInstructions(override) ==
    IF override = "" THEN BaseInstructions ELSE override

HttpResponse(status, err, details, sid, secret, expires) ==
    [status |-> status, error |-> err, details |-> details,
     sessionId |-> sid, clientSecret |-> secret, expiresAt |-> expires]

NoValue == <<"none", 0>>

NoResponse == HttpResponse(0, "", "", NoValue, NoValue, NoValue)

\* The part of the handler after the instructions are resolved, the same in both
\* server files but for what is logged on success: the request to the collaborator
\* and the reply to the client.
SubmitSession(instructions, answer, n, logSecret) ==
    LET request == [instructions |-> instructions, auth |-> "apiKey", answer |-> answer]
    IN  IF answer.kind = "unreachable"
        THEN [response |-> HttpResponse(500, "Internal server error", "fetch failed",
                                        NoValue, NoValue, NoValue),
              requests |-> <<request>>,
              logs |-> {<<"Error creating Realtime session:", <<"err", 0>> >>}]
        ELSE IF answer.kind = "notok"
        THEN [response |-> HttpResponse(answer.status, "Failed to create Realtime session",
                                        answer.body, NoValue, NoValue, NoValue),
              requests |-> <<request>>,
              logs |-> {<<"OpenAI API Error:", <<answer.body, answer.status>> >>}]
        ELSE [response |-> HttpResponse(200, "", "", SessionIdOf(n), CredentialOf(n),
                                        ExpiryOf(n)),
              requests |-> <<request>>,
              logs |-> {<<"Session created successfully", NoValue>>,
                        <<"Session ID:", SessionIdOf(n)>>}
                       \cup (IF logSecret THEN {<<"Client Secret:", CredentialOf(n)>>}
                             ELSE {})]

\* src/server/server.js: requireApiKey, then the handler. retrieved is what
\* retrieveContext returned (or threw) for the bootstrap query.
createSessionAbortOnRetrievalFailure(apiKey, override, retrieved, answer, n) ==
    IF ~apiKey
    THEN [response |-> HttpResponse(401, "API key not configured", "", NoValue, NoValue, NoValue),
          requests |-> <<>>, logs |-> {}]
    ELSE IF retrieved.threw \/ ~retrieved.value.hasContext
    THEN [response |-> HttpResponse(500, "Internal server error", "retrieval failed",
                                    NoValue, NoValue, NoValue),
          requests |-> <<>>, logs |-> {}]
    ELSE SubmitSession([base |-> ResolveInstructions(override),
                        appended |-> formatContextForAI(retrieved.value)],
                       answer, n, FALSE)

createSession(apiKey, override, retrieved, answer, n) ==
    IF ~apiKey
    THEN [response |-> HttpResponse(401, "API key not configured", "", NoValue, NoValue, NoValue),
          requests |-> <<>>, logs |-> {}]
    ELSE LET base == ResolveInstructions(override)
             enhancedInstructions ==
                 IF ~retrieved.threw /\ retrieved.value.hasContext
                 THEN [base |-> base, appended |-> formatContextForAI(retrieved.value)]
                 ELSE [base |-> base, appended |-> [sources |-> <<>>, content |-> <<>>]]
         IN SubmitSession(enhancedInstructions, answer, n, FALSE)

\* src/unnamed/part_002: the same route in the second server file; no retrieval,
\* the key from the environment, and the client secret written to the console.
createSessionBasic(apiKey, override, answer, n) ==
    IF ~apiKey
    THEN [response |-> HttpResponse(500, "OpenAI API key not configured", "",
                                    NoValue, NoValue, NoValue),
          requests |-> <<>>, logs |-> {}]
    ELSE SubmitSession([base |-> ResolveInstructions(override),
                        appended |-> [sources |-> <<>>, content |-> <<>>]],
                       answer, n, TRUE)

\* ------------------------------------------------------------------ client/app.js
\* The turn state of spec section 4.6 read off the client: the four states exist
\* while the event channel is open; ListeningToUser is the talking flag; an agent
\* turn that was requested is awaited until its first fragment arrives.
TurnState ==
    IF dataChannel = "null" \/ dataChannel = "closed" THEN "Closed"
    ELSE IF dataChannel = "connecting" THEN "Connecting"
    ELSE IF isTalking THEN "ListeningToUser"
    ELSE IF agentTurn = "requested" THEN "AwaitingAgentResponse"
    ELSE IF agentTurn = "speaking" THEN "AgentSpeaking"
    ELSE "Idle"

InitialQuestion == <<"initial", 0, 0>>
WaitingQuestion == <<"waiting", 0, 0>>
Transcript(t, k) == <<"transcript", t, k>>
Fragment(t, k) == <<t, k>>

LogEntry(role, content) == [role |-> role, content |-> content]
SystemEntry(text) == LogEntry("system", <<text, 0, 0>>)

\* sendEvent: appends ev to the events sent, when the channel exists and is open.
sendEvent(sent, ev) ==
    IF dataChannel = "open" THEN Append(sent, ev) ELSE sent

\* The collaborator's side of the signals it receives.
\* response.create starts a turn when none is in flight.
RemoteAfterCreate(delivered) ==
    IF delivered /\ agentTurn = "none"
    THEN /\ turnNo' = turnNo + 1
         /\ agentTurn' = "requested"
         /\ fragNo' = 0
         /\ UNCHANGED <<staleTurn, staleFragNo>>
    ELSE UNCHANGED remoteVars

\* response.cancel ends the turn in flight; what it had already sent may still arrive.
RemoteAfterCancel(delivered) ==
    IF delivered /\ agentTurn # "none"
    THEN /\ staleTurn' = turnNo
         /\ staleFragNo' = fragNo
         /\ agentTurn' = "none"
         /\ fragNo' = 0
         /\ UNCHANGED turnNo
    ELSE UNCHANGED remoteVars

\* The session at the collaborator ends with the channel.
RemoteSessionOver ==
    /\ agentTurn' = "none"
    /\ fragNo' = 0
    /\ staleTurn' = 0
    /\ staleFragNo' = 0
    /\ UNCHANGED turnNo

\* cleanup(): lines 208-238.
cleanup ==
    /\ dataChannel' = "null"
    /\ peerConnection' = FALSE
    /\ localStream' = FALSE
    /\ isConnected' = FALSE
    /\ isTalking' = FALSE
    /\ sessionId' = NoValue
    /\ startDisabled' = FALSE
    /\ currentQuestion' = InitialQuestion
    /\ micEnabled' = FALSE
    /\ UNCHANGED <<remoteMuted, currentAssistantTranscript>>

BeginEvent(op, stale) ==
    /\ lastOp' = op
    /\ prevTurn' = TurnState
    /\ evStale' = stale
    /\ UNCHANGED <<indexVars, chunkVars, overlapVars>>

Begin(op) == BeginEvent(op, FALSE)

\* ---- startInterview, lines 84-201, one step per await -------------------
\* The click: the start button is enabled. These steps follow one invocation at a
\* time; the steps of SpecOverlap follow invocations that overlap.
startInterview ==
    /\ pc = "idle"
    /\ ~startDisabled
    /\ Begin("startInterview")
    /\ pc' = "mic"
    /\ out' = <<>>
    /\ logged' = <<>>
    /\ UNCHANGED <<localStream, micEnabled, peerConnection, dataChannel, sessionId,
                   ephemeralKey, isConnected, isTalking, startDisabled, remoteMuted,
                   currentQuestion, currentAssistantTranscript>>
    /\ UNCHANGED <<remoteVars, serverVars>>

\* The response of the session endpoint is read: the next handler finds none.
ResponseRead ==
    /\ respStatus' = httpResponse.status
    /\ httpResponse' = NoResponse
    /\ sessionRequests' = <<>>
    /\ serverLog' = {}
    /\ retrieval' = "none"
    /\ UNCHANGED <<serverImpl, nSessions, usedKeys>>

startInterviewFailsNoCleanup(op) ==
    /\ Begin(op)
    /\ pc' = "idle"
    /\ out' = <<>>
    /\ logged' = <<SystemEntry("Error")>>
    /\ UNCHANGED <<localStream, micEnabled, peerConnection, dataChannel, sessionId,
                   isConnected, isTalking, startDisabled, remoteMuted, currentQuestion,
                   currentAssistantTranscript>>
    /\ ephemeralKey' = NoValue
    /\ RemoteSessionOver
    /\ ResponseRead

\* The catch block, lines 194-200: log the error, then cleanup().
startInterviewFails(op) ==
    /\ Begin(op)
    /\ pc' = "idle"
    /\ out' = <<>>
    /\ logged' = <<SystemEntry("Error")>>
    /\ cleanup
    /\ ephemeralKey' = NoValue
    /\ RemoteSessionOver
    /\ ResponseRead

\* getUserMedia resolves: lines 89-98, and the fetch of line 101 is issued.
micGranted ==
    /\ pc = "mic"
    /\ Begin("micGranted")
    /\ localStream' = TRUE
    /\ micEnabled' = TRUE
    /\ pc' = "cred"
    /\ out' = <<>>
    /\ logged' = <<SystemEntry("Microphone access granted")>>
    /\ UNCHANGED <<peerConnection, dataChannel, sessionId, ephemeralKey, isConnected,
                   isTalking, startDisabled, remoteMuted, currentQuestion,
                   currentAssistantTranscript>>
    /\ UNCHANGED <<remoteVars, serverVars>>

micDenied ==
    /\ pc = "mic"
    /\ startInterviewFails("micDenied")

\* The fetch of line 101 rejects (the server cannot be reached).
credFetchFails ==
    /\ pc = "cred"
    /\ startInterviewFails("credFetchFails")

\* The response of /api/realtime/call arrives: lines 114-166.
credResponseAnyStatus ==
    /\ pc = "credDone"
    /\ Begin("credResponse")
    /\ sessionId' = httpResponse.sessionId
    /\ ephemeralKey' = httpResponse.clientSecret
    /\ peerConnection' = TRUE
    /\ dataChannel' = "connecting"
    /\ usedKeys' = Append(usedKeys, httpResponse.clientSecret)
    /\ pc' = "sdp"
    /\ out' = <<>>
    /\ logged' = <<>>
    /\ UNCHANGED <<localStream, micEnabled, isConnected, isTalking, startDisabled,
                   remoteMuted, currentQuestion, currentAssistantTranscript>>
    /\ respStatus' = httpResponse.status
    /\ httpResponse' = NoResponse
    /\ sessionRequests' = <<>>
    /\ serverLog' = {}
    /\ retrieval' = "none"
    /\ UNCHANGED <<serverImpl, nSessions>>
    /\ UNCHANGED remoteVars

credResponseKeepsFirstKey ==
    /\ pc = "credDone"
    /\ IF httpResponse.status = 200
       THEN /\ Begin("credResponse")
            /\ sessionId' = httpResponse.sessionId
            /\ ephemeralKey' = IF usedKeys = <<>> THEN httpResponse.clientSecret
                                ELSE usedKeys[1]
            /\ peerConnection' = TRUE
            /\ dataChannel' = "connecting"
            /\ usedKeys' = Append(usedKeys, ephemeralKey')
            /\ pc' = "sdp"
            /\ out' = <<>>
            /\ logged' = <<>>
            /\ UNCHANGED <<localStream, micEnabled, isConnected, isTalking, startDisabled,
                           remoteMuted, currentQuestion, currentAssistantTranscript>>
            /\ respStatus' = httpResponse.status
            /\ httpResponse' = NoResponse
            /\ sessionRequests' = <<>>
            /\ serverLog' = {}
            /\ retrieval' = "none"
            /\ UNCHANGED <<serverImpl, nSessions>>
            /\ UNCHANGED remoteVars
       ELSE startInterviewFails("credResponse")

credResponse ==
    /\ pc = "credDone"
    /\ IF httpResponse.status = 200
       THEN credResponseAnyStatus
       ELSE startInterviewFails("credResponse")

\* The answer of the offer/answer exchange arrives: lines 168-192.
sdpResponse ==
    /\ pc = "sdp"
    /\ \E ok \in BOOLEAN :
        IF ok
        THEN /\ Begin("sdpResponse")
             /\ isConnected' = TRUE
             /\ startDisabled' = TRUE
             /\ currentQuestion' = WaitingQuestion
             /\ pc' = "idle"
             /\ out' = <<>>
             /\ logged' = <<SystemEntry("Connected to IELTS Examiner")>>
             /\ ephemeralKey' = NoValue
             /\ UNCHANGED <<localStream, micEnabled, peerConnection, dataChannel, sessionId,
                            isTalking, remoteMuted, currentAssistantTranscript>>
             /\ UNCHANGED <<remoteVars, serverVars>>
        ELSE startInterviewFails("sdpResponse")

\* stopInterview, lines 203-206: the stop button is enabled while connected.
stopInterview ==
    /\ startDisabled
    /\ Begin("stopInterview")
    /\ out' = <<>>
    /\ logged' = <<SystemEntry("Interview ended by user")>>
    /\ cleanup
    /\ RemoteSessionOver
    /\ UNCHANGED <<pc, ephemeralKey>>
    /\ UNCHANGED serverVars

\* ---- the session endpoint serving a request ------------------------------
\* What retrieveContext may be given by its collaborators for the bootstrap query.
SampleRow(f, i, d) ==
    [id |-> <<1, i>>, text |-> i + 1,
     metadata |-> [documentId |-> 1, chunkIndex |-> i, totalChunks |-> 2, fileName |-> f],
     distance |-> d]

BootstrapSearches ==
    {Throw("index unreachable"), Return(<<>>),
     Return(<<SampleRow("notes.pdf", 0, 0)>>),
     Return(<<SampleRow("notes.pdf", 0, 0), SampleRow("tips.pdf", 1, 1)>>)}

BootstrapQuery == 1

\* POST /api/realtime/call is handled for the client waiting at line 101, which
\* sends config {model, voice} and no instructions.
serveCreateSession ==
    \E apiKey \in BOOLEAN, embedOutcome \in {"ok", "reject"},
       searched \in BootstrapSearches, answer \in CollabAnswers :
        /\ pc = "cred"
        /\ nSessions < MaxSessions
        /\ LET n == nSessions + 1
               r == IF serverImpl = "rag"
                    THEN createSession(apiKey, "",
                             retrieveContext(BootstrapQuery, apiKey, embedOutcome, searched),
                             answer, n)
                    ELSE createSessionBasic(apiKey, "", answer, n)
           IN /\ httpResponse' = r.response
              /\ sessionRequests' = r.requests
              /\ serverLog' = r.logs
              /\ nSessions' = IF r.response.status = 200 THEN n ELSE nSessions
        /\ retrieval' = IF ~apiKey \/ serverImpl # "rag" THEN "none"
                        ELSE IF embedOutcome = "reject" \/ searched.threw THEN "failed"
                        ELSE IF searched.value = <<>> THEN "empty"
                        ELSE "context"
        /\ Begin("createSession")
        /\ pc' = "credDone"
        /\ out' = <<>>
        /\ logged' = <<>>
        /\ UNCHANGED <<localStream, micEnabled, peerConnection, dataChannel, sessionId,
                       ephemeralKey, isConnected, isTalking, startDisabled, remoteMuted,
                       currentQuestion, currentAssistantTranscript>>
        /\ UNCHANGED <<serverImpl, usedKeys, respStatus>>
        /\ UNCHANGED remoteVars

\* ---- setupDataChannel, lines 244-279 -------------------------------------
\* onopen: the channel opens once the answer is applied; the opening turn is requested.
dcOnOpen ==
    /\ dataChannel = "connecting"
    /\ isConnected
    /\ turnNo < MaxTurns
    /\ Begin("dcOnOpen")
    /\ dataChannel' = "open"
    /\ out' = <<"response.create">>
    /\ logged' = <<SystemEntry("Data channel established")>>
    /\ turnNo' = turnNo + 1
    /\ agentTurn' = "requested"
    /\ fragNo' = 0
    /\ UNCHANGED <<staleTurn, staleFragNo>>
    /\ UNCHANGED <<pc, localStream, micEnabled, peerConnection, sessionId, ephemeralKey,
                   isConnected, isTalking, startDisabled, remoteMuted, currentQuestion,
                   currentAssistantTranscript>>
    /\ UNCHANGED serverVars

\* onerror, then onclose: the transport under the channel fails. Both only log.
dcOnError ==
    /\ dataChannel \in {"connecting", "open"}
    /\ Begin("dcOnError")
    /\ dataChannel' = "closed"
    /\ out' = <<>>
    /\ logged' = <<SystemEntry("Data channel error occurred"),
                   SystemEntry("Data channel closed")>>
    /\ RemoteSessionOver
    /\ UNCHANGED <<pc, localStream, micEnabled, peerConnection, sessionId, ephemeralKey,
                   isConnected, isTalking, startDisabled, remoteMuted, currentQuestion,
                   currentAssistantTranscript>>
    /\ UNCHANGED serverVars

\* ---- handleRealtimeEvent, lines 294-342 ----------------------------------
\* response.audio_transcript.delta: handleAssistantTranscriptDelta, lines 353-356.
\* The fragment is the next one of the turn in flight, or of a cancelled turn
\* whose events were already on their way.
handleAssistantTranscriptDelta ==
    /\ dataChannel = "open"
    /\ \E stale \in BOOLEAN :
        /\ IF stale
           THEN /\ staleTurn # 0
                /\ staleFragNo < MaxFrags
                /\ currentAssistantTranscript' =
                       Append(currentAssistantTranscript, Fragment(staleTurn, staleFragNo + 1))
                /\ staleFragNo' = staleFragNo + 1
                /\ UNCHANGED <<turnNo, agentTurn, fragNo, staleTurn>>
           ELSE /\ agentTurn \in {"requested", "speaking"}
                /\ fragNo < MaxFrags
                /\ currentAssistantTranscript' =
                       Append(currentAssistantTranscript, Fragment(turnNo, fragNo + 1))
                /\ fragNo' = fragNo + 1
                /\ agentTurn' = "speaking"
                /\ staleTurn' = 0
                /\ staleFragNo' = 0
                /\ UNCHANGED turnNo
        /\ BeginEvent("agentTranscriptDelta", stale)
    /\ out' = <<>>
    /\ logged' = <<>>
    /\ UNCHANGED <<pc, localStream, micEnabled, peerConnection, dataChannel, sessionId,
                   ephemeralKey, isConnected, isTalking, startDisabled, remoteMuted,
                   currentQuestion>>
    /\ UNCHANGED serverVars

\* What handleAssistantTranscriptDone does with the transcript of an event,
\* lines 358-370 (parseFeedback only routes text to panels).
DoneEffect(transcript) ==
    /\ currentAssistantTranscript' = <<>>
    /\ currentQuestion' = transcript
    /\ logged' = <<LogEntry("examiner", transcript)>>

\* response.audio_transcript.done
handleAssistantTranscriptDone ==
    /\ dataChannel = "open"
    /\ \E stale \in BOOLEAN :
        /\ IF stale
           THEN /\ staleTurn # 0
                /\ staleFragNo >= 1
                /\ DoneEffect(Transcript(staleTurn, staleFragNo))
                /\ staleTurn' = 0
                /\ staleFragNo' = 0
                /\ UNCHANGED <<turnNo, agentTurn, fragNo>>
           ELSE /\ agentTurn = "speaking"
                /\ DoneEffect(Transcript(turnNo, fragNo))
                /\ agentTurn' = "none"
                /\ fragNo' = 0
                /\ staleTurn' = 0
                /\ staleFragNo' = 0
                /\ UNCHANGED turnNo
        /\ BeginEvent("agentTranscriptDone", stale)
    /\ out' = <<>>
    /\ UNCHANGED <<pc, localStream, micEnabled, peerConnection, dataChannel, sessionId,
                   ephemeralKey, isConnected, isTalking, startDisabled, remoteMuted>>
    /\ UNCHANGED serverVars

\* conversation.item.input_audio_transcription.completed: handleUserTranscript.
handleUserTranscriptAsExaminer ==
    /\ dataChannel = "open"
    /\ Begin("userTranscriptDone")
    /\ out' = <<>>
    /\ DoneEffect(<<"user", 0, 0>>)
    /\ UNCHANGED <<pc, localStream, micEnabled, peerConnection, dataChannel, sessionId,
                   ephemeralKey, isConnected, isTalking, startDisabled, remoteMuted>>
    /\ UNCHANGED <<remoteVars, serverVars>>

handleUserTranscript ==
    /\ dataChannel = "open"
    /\ Begin("userTranscriptDone")
    /\ out' = <<>>
    /\ logged' = <<LogEntry("user", <<"user", 0, 0>>)>>
    /\ UNCHANGED clientVars
    /\ UNCHANGED <<remoteVars, serverVars>>

\* The 'error' case, lines 333-336: an entry in the log.
ErrorEffect ==
    /\ UNCHANGED clientVars
    /\ UNCHANGED remoteVars

handleErrorEvent ==
    /\ dataChannel = "open"
    /\ Begin("errorEvent")
    /\ out' = <<>>
    /\ logged' = <<SystemEntry("Error")>>
    /\ ErrorEffect
    /\ UNCHANGED serverVars

\* ---- push-to-talk, lines 390-443 -----------------------------------------
\* The guard of line 391, negated.
startTalkingAcceptsByTurn ==
    isConnected /\ ~isTalking /\ TurnState \in {"Idle", "AgentSpeaking"}

startTalkingAccepts == isConnected /\ ~isTalking

StartTalkingSignalsCancelIfSpeaking ==
    IF TurnState = "AgentSpeaking"
    THEN sendEvent(sendEvent(<<>>, "response.cancel"), "input_audio_buffer.commit")
    ELSE sendEvent(<<>>, "input_audio_buffer.commit")

StartTalkingSignalsNoCancel ==
    sendEvent(<<>>, "input_audio_buffer.commit")

StartTalkingSignals ==
    sendEvent(sendEvent(<<>>, "response.cancel"), "input_audio_buffer.commit")

startTalking ==
    /\ Begin("startTalking")
    /\ logged' = <<>>
    /\ IF startTalkingAccepts
       THEN /\ isTalking' = TRUE
            /\ out' = StartTalkingSignals
            /\ remoteMuted' = TRUE
            /\ micEnabled' = IF localStream THEN TRUE ELSE micEnabled
            /\ RemoteAfterCancel("response.cancel" \in {out'[i] : i \in 1..Len(out')})
            /\ UNCHANGED <<pc, localStream, peerConnection, dataChannel, sessionId,
                           ephemeralKey, isConnected, startDisabled, currentQuestion,
                           currentAssistantTranscript>>
       ELSE /\ out' = <<>>
            /\ UNCHANGED clientVars
            /\ UNCHANGED remoteVars
    /\ UNCHANGED serverVars

\* The guard of line 421, negated.
stopTalkingAccepts == isConnected /\ isTalking

stopTalkingDisablesMic ==
    /\ (stopTalkingAccepts /\ dataChannel = "open" /\ agentTurn = "none") => turnNo < MaxTurns
    /\ Begin("stopTalking")
    /\ logged' = <<>>
    /\ IF stopTalkingAccepts
       THEN /\ isTalking' = FALSE
            /\ remoteMuted' = FALSE
            /\ micEnabled' = FALSE
            /\ out' = sendEvent(<<>>, "response.create")
            /\ RemoteAfterCreate(out' # <<>>)
            /\ UNCHANGED <<pc, localStream, peerConnection, dataChannel,
                           sessionId, ephemeralKey, isConnected, startDisabled,
                           currentQuestion, currentAssistantTranscript>>
       ELSE /\ out' = <<>>
            /\ UNCHANGED clientVars
            /\ UNCHANGED remoteVars
    /\ UNCHANGED serverVars

stopTalking ==
    /\ (stopTalkingAccepts /\ dataChannel = "open" /\ agentTurn = "none") => turnNo < MaxTurns
    /\ Begin("stopTalking")
    /\ logged' = <<>>
    /\ IF stopTalkingAccepts
       THEN /\ isTalking' = FALSE
            /\ remoteMuted' = FALSE
            /\ out' = sendEvent(<<>>, "response.create")
            /\ RemoteAfterCreate(out' # <<>>)
            /\ UNCHANGED <<pc, localStream, micEnabled, peerConnection, dataChannel,
                           sessionId, ephemeralKey, isConnected, startDisabled,
                           currentQuestion, currentAssistantTranscript>>
       ELSE /\ out' = <<>>
            /\ UNCHANGED clientVars
            /\ UNCHANGED remoteVars
    /\ UNCHANGED serverVars


\* ------------------------------------------------------------------ vectorStore.js
\* `${documentId}_chunk_${index}`
ChunkId(documentId, i) == <<documentId, i>>

\* The ids and metadatas addDocuments builds for coll.add, lines 51-70.
ChunkRecords(chunks, embeddings, documentId, metadata) ==
    [i \in 1..Len(chunks) |->
        [id |-> ChunkId(documentId, i - 1),
         documentId |-> documentId,
         chunkIndex |-> i - 1,
         totalChunks |-> Len(chunks),
         fileName |-> metadata.fileName,
         uploadedAt |-> metadata.uploadedAt,
         text |-> chunks[i],
         embedding |-> embeddings[i]]]

IdsOf(records) == {records[i].id : i \in 1..Len(records)}

\* The storage collaborator's add. It validates that ids and embeddings have the
\* same length. For an id it already holds it either keeps the record it has and
\* adds the others ("skip"), or refuses the whole call ("reject").
collAdd(idx, chunks, embeddings, documentId, metadata, up, dupMode) ==
    IF ~up THEN Throw("index unreachable")
    ELSE IF Len(chunks) # Len(embeddings) THEN Throw("ids and embeddings differ in length")
    ELSE LET recs == ChunkRecords(chunks, embeddings, documentId, metadata)
             IsNew(r) == r.id \notin IdsOf(idx)
         IN IF dupMode = "reject" /\ \E i \in 1..Len(recs) : ~IsNew(recs[i])
            THEN Throw("duplicate id")
            ELSE Return(idx \o SelectSeq(recs, IsNew))

\* coll.get({where: {documentId}}).ids
collGetIds(idx, documentId) ==
    LET Carries(r) == r.documentId = documentId
        hits == SelectSeq(idx, Carries)
    IN {hits[i].id : i \in 1..Len(hits)}

\* coll.delete({ids})
collDelete(idx, ids) ==
    LET Stays(r) == r.id \notin ids
    IN SelectSeq(idx, Stays)

CountOfDocument(idx, documentId) == Cardinality(collGetIds(idx, documentId))

\* deleteDocument, lines 119-138: the ids it hands to coll.delete are those the
\* get returned for the documentId.
deleteTargetsFirstOnly(idx, documentId) ==
    LET ids == collGetIds(idx, documentId)
    IN IF ids = {} THEN {} ELSE {CHOOSE x \in ids : \A y \in ids : x[2] <= y[2]}

deleteTargetsWholeCollection(idx, documentId) == IdsOf(idx)

deleteTargets(idx, documentId) == collGetIds(idx, documentId)

RECURSIVE listDocumentsLastWins(_)
listDocumentsLastWins(idx) ==
    IF idx = <<>> THEN <<>>
    ELSE LET rows == listDocumentsLastWins(SubSeq(idx, 1, Len(idx) - 1))
             m == idx[Len(idx)]
             row == [documentId |-> m.documentId, fileName |-> m.fileName,
                     uploadedAt |-> m.uploadedAt, totalChunks |-> m.totalChunks]
         IN IF \E i \in 1..Len(rows) : rows[i].documentId = m.documentId
            THEN [i \in 1..Len(rows) |->
                     IF rows[i].documentId = m.documentId THEN row ELSE rows[i]]
            ELSE Append(rows, row)

\* listDocuments, lines 144-171: one row per documentId, the first record seen wins.
RECURSIVE listDocuments(_)
listDocuments(idx) ==
    IF idx = <<>> THEN <<>>
    ELSE LET rows == listDocuments(SubSeq(idx, 1, Len(idx) - 1))
             m == idx[Len(idx)]
         IN IF \E i \in 1..Len(rows) : rows[i].documentId = m.documentId
            THEN rows
            ELSE Append(rows, [documentId |-> m.documentId, fileName |-> m.fileName,
                               uploadedAt |-> m.uploadedAt, totalChunks |-> m.totalChunks])

\* getStats, lines 177-192, on one state of the collection.
getStats(idx) ==
    [totalChunks |-> Len(idx),
     totalDocuments |-> Len(listDocuments(idx)),
     documents |-> listDocuments(idx)]

\* The collaborator's distance between two vectors (squared L2, its default).
Distance(a, b) == (a - b) * (a - b)

\* coll.query: the n nearest records, nearest first; among equals, the older one.
RECURSIVE collQuery(_, _, _)
collQuery(idx, q, n) ==
    IF n <= 0 \/ idx = <<>> THEN <<>>
    ELSE LET best == CHOOSE i \in 1..Len(idx) :
                        \A j \in 1..Len(idx) :
                            \/ Distance(idx[i].embedding, q) < Distance(idx[j].embedding, q)
                            \/ /\ Distance(idx[i].embedding, q) = Distance(idx[j].embedding, q)
                               /\ i <= j
             rest == [k \in 1..(Len(idx) - 1) |-> IF k < best THEN idx[k] ELSE idx[k + 1]]
         IN <<idx[best]>> \o collQuery(rest, q, n - 1)

searchSimilarBackwards(idx, queryEmbedding, nResults, up, strict) ==
    IF ~up THEN Throw("index unreachable")
    ELSE IF strict /\ nResults <= 0
    THEN Throw("Number of requested results cannot be negative, or zero")
    ELSE LET rows == collQuery(idx, queryEmbedding, nResults)
             m == Len(rows)
         IN Return([i \in 1..m |->
                [id |-> rows[m + 1 - i].id,
                 text |-> rows[m + 1 - i].text,
                 metadata |-> [documentId |-> rows[m + 1 - i].documentId,
                               chunkIndex |-> rows[m + 1 - i].chunkIndex,
                               totalChunks |-> rows[m + 1 - i].totalChunks,
                               fileName |-> rows[m + 1 - i].fileName],
                 distance |-> Distance(rows[m + 1 - i].embedding, queryEmbedding)]])

\* searchSimilar, lines 85-112: throws when the collaborator does, else formats
\* the rows. nResults goes to coll.query as it came; strict tells whether the
\* collaborator refuses a number of results that is not positive or answers
\* with no row.
searchSimilar(idx, queryEmbedding, nResults, up, strict) ==
    IF ~up THEN Throw("index unreachable")
    ELSE IF strict /\ nResults <= 0
    THEN Throw("Number of requested results cannot be negative, or zero")
    ELSE LET rows == collQuery(idx, queryEmbedding, nResults)
         IN Return([i \in 1..Len(rows) |->
                [id |-> rows[i].id,
                 text |-> rows[i].text,
                 metadata |-> [documentId |-> rows[i].documentId,
                               chunkIndex |-> rows[i].chunkIndex,
                               totalChunks |-> rows[i].totalChunks,
                               fileName |-> rows[i].fileName],
                 distance |-> Distance(rows[i].embedding, queryEmbedding)]])

\* ------------------------------------------------------------------ pdfProcessor.js
BatchSize == 20

\* The chunks of an uploaded document with n chunks: texts 1..n.
ChunksOf(n) == [i \in 1..n |-> i]

\* chunks.slice(i, i + batchSize), i counted from 0.
Batch(chunks, i) ==
    SubSeq(chunks, i + 1, IF i + BatchSize < Len(chunks) THEN i + BatchSize ELSE Len(chunks))

\* response.data.map(item => item.embedding)
BatchEmbeddings(batch) == [k \in 1..Len(batch) |-> EmbeddingOf(batch[k])]


\* ---- chunkText, lines 30-66 ----------------------------------------------
\* A text is a sequence of characters. \s matches the space and the newline.
IsSpace(c) == c \in {" ", "\n"}

Min(a, b) == IF a < b THEN a ELSE b
Max(a, b) == IF a > b THEN a ELSE b

\* s.slice(from, to), indices counted from 0.
Slice(s, from, to) == SubSeq(s, from + 1, Min(to, Len(s)))

\* s.lastIndexOf(c): the last index (from 0) that holds c, or -1.
LastIndexOf(s, c) ==
    IF \E i \in 1..Len(s) : s[i] = c
    THEN (CHOOSE i \in 1..Len(s) : s[i] = c /\ \A j \in (i + 1)..Len(s) : s[j] # c) - 1
    ELSE 0 - 1

\* The part [from, to) of s that s.trim() keeps, indices counted from 0.
TrimRange(s) ==
    IF \A i \in 1..Len(s) : IsSpace(s[i])
    THEN [from |-> 0, to |-> 0]
    ELSE [from |-> (CHOOSE i \in 1..Len(s) :
                        ~IsSpace(s[i]) /\ \A j \in 1..(i - 1) : IsSpace(s[j])) - 1,
          to |-> CHOOSE i \in 1..Len(s) :
                        ~IsSpace(s[i]) /\ \A j \in (i + 1)..Len(s) : IsSpace(s[j])]

Trim(s) == Slice(s, TrimRange(s).from, TrimRange(s).to)

\* Lines 35-38: text.replace(/\s+/g, ' ').replace(/\n+/g, '\n').trim(). Every run
\* of whitespace becomes one space (so the second replace finds no newline), and
\* the runs at both ends go.
Normalize(text) ==
    LET n == Len(text)
        Keep(i) ==
            \/ ~IsSpace(text[i])
            \/ /\ i > 1
               /\ ~IsSpace(text[i - 1])
               /\ \E j \in (i + 1)..n : ~IsSpace(text[j])
        idx == SelectSeq([i \in 1..n |-> i], Keep)
    IN  [k \in 1..Len(idx) |-> IF IsSpace(text[idx[k]]) THEN " " ELSE text[idx[k]]]


\* Lines 47-49: the later of the last '.' and the last newline of the window.
BreakPoint(window) == Max(LastIndexOf(window, "."), LastIndexOf(window, "\n"))

\* Line 51: breakPoint > chunkSize * 0.5
TakesBreakAny(breakPoint) == breakPoint >= 0

TakesBreak(breakPoint) == 2 * breakPoint > chunkSize

\* Line 53: startIndex += breakPoint + 1
AfterBreakSkipping(breakPoint) == startIndex + breakPoint + 2

AfterBreak(breakPoint) == startIndex + breakPoint + 1

\* Line 56: startIndex += chunkSize - overlap
AfterWindowHalfStride == startIndex + (chunkSize - overlap + 1) \div 2

AfterWindow == startIndex + chunkSize - overlap

\* Line 61: chunk.trim().length > 0
KeepsChunkAlways(chunk) == TRUE

KeepsChunk(chunk) == Len(Trim(chunk)) > 0

\* One pass of the loop, lines 41-63: the chunk it cut and the next startIndex.
ChunkPass ==
    LET endIndex == Min(startIndex + chunkSize, Len(cleanText))
        window == Slice(cleanText, startIndex, endIndex)
        breakPoint == BreakPoint(window)
        interior == endIndex < Len(cleanText)
        cut == interior /\ TakesBreak(breakPoint)
    IN  [chunk |-> IF cut THEN Slice(window, 0, breakPoint + 1) ELSE window,
         startIndex |-> IF ~interior THEN Len(cleanText)
                        ELSE IF cut THEN AfterBreak(breakPoint)
                        ELSE AfterWindow]

\* The inputs: every short text over four characters with every small
\* chunkSize > overlap >= 0, and documents of 2500 characters, with '.' and ' '
\* at chosen places, under the defaults of line 30.
MaxTextLen == 6
MaxChunkSize == 5
DefaultChunkSize == 1000
DefaultOverlap == 200

Chars == {"a", ".", " ", "\n"}
Texts == UNION {[1..n -> Chars] : n \in 1..MaxTextLen}

LongText(len, dots, blanks) ==
    [i \in 1..len |-> IF (i - 1) \in dots THEN "."
                      ELSE IF (i - 1) \in blanks THEN " " ELSE "a"]

Documents ==
    {LongText(2500, dots, blanks) :
        dots \in {{}, {501, 1003, 1505}, {999, 1999}, {500, 1300}, {700, 1201, 2499}},
        blanks \in {{}, {502, 1000, 1004, 1506}}}
    \cup {LongText(2400, {501, 1003, 1505}, {})}

\* Every step of chunkText leaves the rest of the program as it is.
ChunkStep ==
    /\ lastOp' = "chunkText"
    /\ UNCHANGED <<out, logged, prevTurn, evStale>>
    /\ UNCHANGED <<clientVars, remoteVars, serverVars, indexVars, overlapVars>>

\* chunkText(text, chunkSize, overlap) is called: lines 31-38.
chunkTextCall ==
    \E size \in (1..MaxChunkSize) \cup {DefaultChunkSize},
       ov \in (0..MaxChunkSize) \cup {DefaultOverlap} :
        /\ chunkPc = "idle"
        /\ size > ov
        /\ \E text \in IF size = DefaultChunkSize /\ ov = DefaultOverlap THEN Documents
                       ELSE IF size <= MaxChunkSize /\ ov <= MaxChunkSize THEN Texts
                       ELSE {} :
               cleanText' = Normalize(text)
        /\ chunkSize' = size
        /\ overlap' = ov
        /\ startIndex' = 0
        /\ chunkList' = <<>>
        /\ spans' = <<>>
        /\ starts' = <<>>
        /\ chunkPc' = "loop"
        /\ ChunkStep

\* One pass of the while loop, lines 40-63.
chunkTextPass ==
    /\ chunkPc = "loop"
    /\ startIndex < Len(cleanText)
    /\ LET pass == ChunkPass
           kept == TrimRange(pass.chunk)
       IN  /\ startIndex' = pass.startIndex
           /\ IF KeepsChunk(pass.chunk)
              THEN /\ chunkList' = Append(chunkList, Trim(pass.chunk))
                   /\ spans' = Append(spans, [from |-> startIndex + kept.from,
                                              to |-> startIndex + kept.to])
              ELSE UNCHANGED <<chunkList, spans>>
    /\ starts' = Append(starts, startIndex)
    /\ ChunkStep
    /\ UNCHANGED <<chunkPc, cleanText, chunkSize, overlap>>

\* The loop condition fails: line 65.
chunkTextReturn ==
    /\ chunkPc = "loop"
    /\ startIndex >= Len(cleanText)
    /\ chunkPc' = "returned"
    /\ ChunkStep
    /\ UNCHANGED <<cleanText, chunkSize, overlap, startIndex, chunkList, spans, starts>>


\* ------------------------------------------------------------------ routes of server.js
MaxUploads == 2
MaxClock == 2

Slots == 1..MaxUploads
ChunkCounts == {2, BatchSize + 1}
DocumentIds == 0..MaxClock
TopKs == {0, 1, 3}
RetrievalFailures == {"none", "no key", "embedding rejected", "index unreachable"}

FreeUpload ==
    [status |-> "free", n |-> 0, fileName |-> "", i |-> 0,
     embeddings |-> <<>>, batchFailed |-> FALSE, written |-> 0]

NoDelete == [documentId |-> 0, ids |-> {}, active |-> FALSE, countBefore |-> 0,
             ofDocumentBefore |-> 0, interleaved |-> FALSE]

Reply(route, status, documentId, chunks, retrieved) ==
    [route |-> route, status |-> status, documentId |-> documentId, chunks |-> chunks,
     hasContext |-> retrieved.hasContext, sources |-> retrieved.sources,
     results |-> retrieved.results, error |-> retrieved.error]

NoReply == Reply("", 0, 0, 0, NoContext(""))

\* A step of the retrieval side: the browser client and the session endpoint stand still.
HelperStep ==
    /\ lastOp' = "server"
    /\ UNCHANGED <<out, logged, prevTurn, evStale>>
    /\ UNCHANGED <<clientVars, remoteVars, serverVars, chunkVars, overlapVars>>

ServerStep ==
    /\ HelperStep
    /\ UNCHANGED lastCall

\* What is kept of deleteDocument between its two awaits; nothing once it returned.
KeepDelete == IF pendingDelete.active THEN pendingDelete ELSE NoDelete

\* A write between the get and the delete of a pending deleteDocument.
NoteWrite ==
    IF pendingDelete.active THEN [pendingDelete EXCEPT !.interleaved = TRUE] ELSE NoDelete

\* A request that has been answered keeps what it did, not what it was given.
Finished(up, status, written) ==
    [FreeUpload EXCEPT !.status = status, !.batchFailed = up.batchFailed,
                       !.written = written]

\* POST /api/upload-pdf, lines 211-220: processPDF extracts the text (which may
\* throw), chunks it and enters generateEmbeddings, which throws at once without
\* an API key (pdfProcessor.js 75-77).
uploadStart ==
    \E u \in Slots, n \in ChunkCounts, f \in FileNames, apiKey \in BOOLEAN,
       extracted \in BOOLEAN :
        /\ uploads[u].status = "free"
        /\ \A v \in Slots : v < u => uploads[v].status # "free"
        /\ uploads' = [uploads EXCEPT ![u] =
               IF extracted /\ apiKey
               THEN [FreeUpload EXCEPT !.status = "embedding", !.n = n, !.fileName = f]
               ELSE Finished(FreeUpload, "failed", 0)]
        /\ reply' = IF ~extracted
                    THEN Reply("upload", 500, 0, 0, NoContext("Failed to extract text from PDF"))
                    ELSE IF ~apiKey
                    THEN Reply("upload", 500, 0, 0,
                               NoContext("API Key required for generating embeddings"))
                    ELSE NoReply
        /\ pendingDelete' = KeepDelete
        /\ calls' = <<>>
        /\ ServerStep
        /\ UNCHANGED <<index, clock>>

\* generateEmbeddings, lines 74-105: what one pass of the loop makes of the request.
\* A failed batch throws: nothing is returned, whatever earlier batches produced.
EmbedStepKeepPartial(up, ok) ==
    IF ~ok
    THEN [up EXCEPT !.status = "ready", !.batchFailed = TRUE]
    ELSE LET e == up.embeddings \o BatchEmbeddings(Batch(ChunksOf(up.n), up.i))
             j == up.i + BatchSize
         IN [up EXCEPT !.embeddings = e, !.i = j,
                       !.status = IF j < up.n THEN "embedding" ELSE "ready"]

EmbedStepPrepend(up, ok) ==
    IF ~ok
    THEN [Finished(up, "failed", 0) EXCEPT !.batchFailed = TRUE, !.i = up.i]
    ELSE LET e == BatchEmbeddings(Batch(ChunksOf(up.n), up.i)) \o up.embeddings
             j == up.i + BatchSize
         IN [up EXCEPT !.embeddings = e, !.i = j,
                       !.status = IF j < up.n THEN "embedding" ELSE "ready"]

EmbedStep(up, ok) ==
    IF ~ok
    THEN [Finished(up, "failed", 0) EXCEPT !.batchFailed = TRUE, !.i = up.i]
    ELSE LET e == up.embeddings \o BatchEmbeddings(Batch(ChunksOf(up.n), up.i))
             j == up.i + BatchSize
         IN [up EXCEPT !.embeddings = e, !.i = j,
                       !.status = IF j < up.n THEN "embedding" ELSE "ready"]

embedBatch ==
    \E u \in Slots, ok \in BOOLEAN :
        /\ uploads[u].status = "embedding"
        /\ uploads' = [uploads EXCEPT ![u] = EmbedStep(uploads[u], ok)]
        /\ reply' = IF uploads'[u].status = "failed"
                    THEN Reply("upload", 500, 0, 0, NoContext("Failed to generate embeddings"))
                    ELSE NoReply
        /\ pendingDelete' = KeepDelete
        /\ calls' = <<"embeddings.create">>
        /\ ServerStep
        /\ UNCHANGED <<index, clock>>

\* Lines 222-244: the documentId from Date.now(), which is the time of the last
\* reading or later, then addDocuments.
uploadAdd ==
    \E u \in Slots, now \in clock..MaxClock, up \in BOOLEAN, dupMode \in {"skip", "reject"} :
        /\ uploads[u].status = "ready"
        /\ clock' = now
        /\ LET documentId == now
               added == collAdd(index, ChunksOf(uploads[u].n), uploads[u].embeddings,
                                documentId,
                                [fileName |-> uploads[u].fileName, uploadedAt |-> now],
                                up, dupMode)
           IN IF added.threw
              THEN /\ uploads' = [uploads EXCEPT ![u] = Finished(uploads[u], "failed", 0)]
                   /\ reply' = Reply("upload", 500, 0, 0, NoContext(added.message))
                   /\ pendingDelete' = KeepDelete
                   /\ UNCHANGED index
              ELSE /\ index' = added.value
                   /\ uploads' = [uploads EXCEPT ![u] =
                          Finished(uploads[u], "done", Len(added.value) - Len(index))]
                   /\ reply' = Reply("upload", 200, documentId, uploads[u].n, NoContext(""))
                   /\ pendingDelete' = NoteWrite
        /\ calls' = <<"coll.add">>
        /\ ServerStep

\* DELETE /api/materials/:id, lines 274-290, and deleteDocument: the get.
deleteGet ==
    \E documentId \in DocumentIds, up \in BOOLEAN :
        /\ ~pendingDelete.active
        /\ IF up
           THEN /\ pendingDelete' =
                       [documentId |-> documentId, ids |-> deleteTargets(index, documentId),
                        active |-> TRUE, countBefore |-> Len(index),
                        ofDocumentBefore |-> CountOfDocument(index, documentId),
                        interleaved |-> FALSE]
                /\ reply' = NoReply
           ELSE /\ pendingDelete' = NoDelete
                /\ reply' = Reply("delete", 500, documentId, 0, NoContext("index unreachable"))
        /\ calls' = <<"coll.get">>
        /\ ServerStep
        /\ UNCHANGED <<index, clock, uploads>>

\* deleteDocument: the delete of the ids the get returned, if any.
deleteDocument ==
    \E up \in BOOLEAN :
        /\ pendingDelete.active
        /\ IF up \/ pendingDelete.ids = {}
           THEN /\ index' = collDelete(index, pendingDelete.ids)
                /\ reply' = Reply("delete", 200, pendingDelete.documentId, 0, NoContext(""))
           ELSE /\ UNCHANGED index
                /\ reply' = Reply("delete", 500, pendingDelete.documentId, 0,
                                  NoContext("index unreachable"))
        /\ pendingDelete' = [pendingDelete EXCEPT !.active = FALSE]
        /\ calls' = IF pendingDelete.ids = {} THEN <<>> ELSE <<"coll.delete">>
        /\ ServerStep
        /\ UNCHANGED <<clock, uploads>>

\* POST /api/search, lines 310-334.
search ==
    \E query \in Queries, topK \in TopKs, failure \in RetrievalFailures, strict \in BOOLEAN :
        /\ LET apiKey == failure # "no key"
               embedOutcome == IF failure = "embedding rejected" THEN "reject" ELSE "ok"
               up == failure # "index unreachable"
               context == retrieveContext(query, apiKey, embedOutcome,
                              searchSimilar(index, EmbeddingOf(query), topK, up, strict))
           IN /\ reply' = IF context.threw
                       THEN Reply("search", 500, 0, 0, NoContext(context.message))
                       ELSE Reply("search", 200, 0, 0, context.value)
              /\ calls' = retrieveContextCalls(apiKey, embedOutcome)
        /\ pendingDelete' = KeepDelete
        /\ ServerStep
        /\ UNCHANGED <<index, clock, uploads>>

\* GET /api/materials/stats, lines 293-307, and getStats of vectorStore.js,
\* lines 177-192: coll.count() is awaited, then listDocuments(), whose coll.get()
\* is a second request to the collection.
Thresholds == {0, 1, 2}

NoCall == [fn |-> "", pc |-> "", query |-> 0, threshold |-> 0, failure |-> "",
           result |-> FALSE, totalChunks |-> 0, totalDocuments |-> 0, documents |-> <<>>]

getStatsCount ==
    /\ lastCall.pc # "counted"
    /\ lastCall' = [NoCall EXCEPT !.fn = "getStats", !.pc = "counted",
                                  !.totalChunks = Len(index)]
    /\ calls' = <<"coll.count">>
    /\ HelperStep
    /\ UNCHANGED <<index, clock, uploads, pendingDelete, reply>>

StatsOf(count, documents) ==
    [totalChunks |-> count, totalDocuments |-> Len(documents), documents |-> documents]

getStatsList ==
    /\ lastCall.pc = "counted"
    /\ LET stats == StatsOf(lastCall.totalChunks, listDocuments(index))
       IN lastCall' = [NoCall EXCEPT !.fn = "getStats", !.pc = "returned",
                                     !.totalChunks = stats.totalChunks,
                                     !.totalDocuments = stats.totalDocuments,
                                     !.documents = stats.documents]
    /\ calls' = <<"coll.get">>
    /\ HelperStep
    /\ UNCHANGED <<index, clock, uploads, pendingDelete, reply>>

\* hasRelevantMaterials(query, threshold, apiKey) of retriever.js is called.
hasRelevantMaterialsCall ==
    \E query \in Queries, threshold \in Thresholds, failure \in RetrievalFailures :
        /\ lastCall.pc # "counted"
        /\ LET apiKey == failure # "no key"
               embedOutcome == IF failure = "embedding rejected" THEN "reject" ELSE "ok"
               up == failure # "index unreachable"
               searched == searchSimilar(index, EmbeddingOf(query), 1, up, TRUE)
           IN /\ lastCall' = [NoCall EXCEPT
                  !.fn = "hasRelevantMaterials", !.pc = "returned", !.query = query,
                  !.threshold = threshold, !.failure = failure,
                  !.result = hasRelevantMaterials(query, threshold, apiKey, embedOutcome,
                                                  searched)]
              /\ calls' = retrieveContextCalls(apiKey, embedOutcome)
        /\ HelperStep
        /\ UNCHANGED <<index, clock, uploads, pendingDelete, reply>>

\* ---- startInterview invoked again during setup, lines 46 and 84-201 --------
\* The click listener of line 46 calls startInterview on every click, and the start
\* button is disabled only at line 187, so invocations overlap. Each has its own
\* position and its own local ephemeralKey; state.localStream, state.peerConnection,
\* state.dataChannel and state.sessionId are shared and assigned by whichever
\* invocation resumes.
Invocations == 1..MaxInvocations
NotRunning == [at |-> "none", key |-> FALSE]

OverlapStep(op) ==
    /\ lastOp' = op
    /\ prevTurn' = TurnState
    /\ evStale' = FALSE
    /\ out' = <<>>
    /\ UNCHANGED <<pc, ephemeralKey, remoteVars, serverVars, indexVars, chunkVars>>

\* cleanup() stops the tracks of state.localStream and closes state.peerConnection,
\* when they are set: lines 215-225.
cleanupReleases ==
    /\ cleanup
    /\ openStreams' = IF localStream THEN openStreams - 1 ELSE openStreams
    /\ openConns' = IF peerConnection THEN openConns - 1 ELSE openConns

\* The catch block of invocation k, lines 194-200.
invFails(k, op) ==
    /\ OverlapStep(op)
    /\ invocations' = [invocations EXCEPT ![k] = NotRunning]
    /\ logged' = <<SystemEntry("Error")>>
    /\ cleanupReleases
    /\ UNCHANGED clicks

\* A click of the start button while it is enabled: line 86.
invStart(k) ==
    /\ invocations[k].at = "none"
    /\ ~startDisabled
    /\ clicks < MaxClicks
    /\ OverlapStep("invStart")
    /\ invocations' = [invocations EXCEPT ![k].at = "mic"]
    /\ clicks' = clicks + 1
    /\ logged' = <<>>
    /\ UNCHANGED <<localStream, micEnabled, peerConnection, dataChannel, sessionId,
                   isConnected, isTalking, startDisabled, remoteMuted, currentQuestion,
                   currentAssistantTranscript, openStreams, openConns>>

\* getUserMedia of invocation k resolves: line 89 assigns the new stream to
\* state.localStream, whatever it held.
invMicGranted(k) ==
    /\ invocations[k].at = "mic"
    /\ OverlapStep("invMicGranted")
    /\ invocations' = [invocations EXCEPT ![k].at = "cred"]
    /\ localStream' = TRUE
    /\ micEnabled' = TRUE
    /\ openStreams' = openStreams + 1
    /\ logged' = <<SystemEntry("Microphone access granted")>>
    /\ UNCHANGED <<peerConnection, dataChannel, sessionId, isConnected, isTalking,
                   startDisabled, remoteMuted, currentQuestion,
                   currentAssistantTranscript, openConns, clicks>>

invMicDenied(k) ==
    /\ invocations[k].at = "mic"
    /\ invFails(k, "invMicDenied")

\* The credential response of invocation k arrives with status 200: lines 119-166.
\* Line 129 assigns a new connection to state.peerConnection, whatever it held;
\* line 134 reads state.localStream and throws when a cleanup() has nulled it.
invCredResponse(k) ==
    /\ invocations[k].at = "cred"
    /\ OverlapStep("invCredResponse")
    /\ IF localStream
       THEN /\ invocations' = [invocations EXCEPT ![k] = [at |-> "sdp", key |-> TRUE]]
            /\ sessionId' = <<"session", k>>
            /\ peerConnection' = TRUE
            /\ dataChannel' = "connecting"
            /\ openConns' = openConns + 1
            /\ logged' = <<>>
            /\ UNCHANGED <<localStream, micEnabled, isConnected, isTalking, startDisabled,
                           remoteMuted, currentQuestion, currentAssistantTranscript,
                           openStreams, clicks>>
       ELSE /\ invocations' = [invocations EXCEPT ![k] = NotRunning]
            /\ logged' = <<SystemEntry("Error")>>
            /\ cleanup
            /\ UNCHANGED <<openStreams, openConns, clicks>>

\* The credential request of invocation k is rejected or answered with an error.
invCredFails(k) ==
    /\ invocations[k].at = "cred"
    /\ invFails(k, "invCredFails")

\* The answer of the offer/answer exchange of invocation k arrives: lines 178-192.
\* Line 178 applies it to state.peerConnection and throws when that is null.
invSdpResponse(k) ==
    /\ invocations[k].at = "sdp"
    /\ IF peerConnection
       THEN /\ OverlapStep("invSdpResponse")
            /\ invocations' = [invocations EXCEPT ![k] = NotRunning]
            /\ isConnected' = TRUE
            /\ startDisabled' = TRUE
            /\ currentQuestion' = WaitingQuestion
            /\ logged' = <<SystemEntry("Connected to IELTS Examiner")>>
            /\ UNCHANGED <<localStream, micEnabled, peerConnection, dataChannel, sessionId,
                           isTalking, remoteMuted, currentAssistantTranscript,
                           openStreams, openConns, clicks>>
       ELSE invFails(k, "invSdpResponse")

invSdpFails(k) ==
    /\ invocations[k].at = "sdp"
    /\ invFails(k, "invSdpFails")

\* The stop button, enabled at line 189: stopInterview, lines 203-206.
invStop ==
    /\ startDisabled
    /\ OverlapStep("invStop")
    /\ logged' = <<SystemEntry("Interview ended by user")>>
    /\ cleanupReleases
    /\ UNCHANGED <<invocations, clicks>>

\* ------------------------------------------------------------------ Spec
Init ==
    /\ pc = "idle"
    /\ localStream = FALSE
    /\ micEnabled = FALSE
    /\ peerConnection = FALSE
    /\ dataChannel = "null"
    /\ sessionId = NoValue
    /\ ephemeralKey = NoValue
    /\ isConnected = FALSE
    /\ isTalking = FALSE
    /\ startDisabled = FALSE
    /\ remoteMuted = FALSE
    /\ currentQuestion = InitialQuestion
    /\ currentAssistantTranscript = <<>>
    /\ lastOp = "init"
    /\ out = <<>>
    /\ logged = <<>>
    /\ prevTurn = "Closed"
    /\ evStale = FALSE
    /\ turnNo = 0
    /\ agentTurn = "none"
    /\ fragNo = 0
    /\ staleTurn = 0
    /\ staleFragNo = 0
    /\ serverImpl \in {"rag", "basic"}
    /\ serverLog = {}
    /\ sessionRequests = <<>>
    /\ httpResponse = NoResponse
    /\ respStatus = 0
    /\ retrieval = "none"
    /\ nSessions = 0
    /\ usedKeys = <<>>
    /\ index = <<>>
    /\ clock = 1
    /\ uploads = [u \in Slots |-> FreeUpload]
    /\ pendingDelete = NoDelete
    /\ reply = NoReply
    /\ lastCall = NoCall
    /\ calls = <<>>
    /\ chunkPc = "idle"
    /\ cleanText = <<>>
    /\ chunkSize = 0
    /\ overlap = 0
    /\ startIndex = 0
    /\ chunkList = <<>>
    /\ spans = <<>>
    /\ starts = <<>>
    /\ invocations = [k \in Invocations |-> NotRunning]
    /\ openStreams = 0
    /\ openConns = 0
    /\ clicks = 0

Next ==
    \/ startInterview
    \/ micGranted
    \/ micDenied
    \/ credFetchFails
    \/ serveCreateSession
    \/ credResponse
    \/ sdpResponse
    \/ stopInterview
    \/ dcOnOpen
    \/ dcOnError
    \/ handleAssistantTranscriptDelta
    \/ handleAssistantTranscriptDone
    \/ handleUserTranscript
    \/ handleErrorEvent
    \/ startTalking
    \/ stopTalking

Spec == Init /\ [][Next]_vars

\* The retrieval side of server.js on its own.
InitServer ==
    /\ Init
    /\ serverImpl = "rag"

NextServer ==
    \/ uploadStart
    \/ embedBatch
    \/ uploadAdd
    \/ deleteGet
    \/ deleteDocument
    \/ search

SpecServer == InitServer /\ [][NextServer]_vars

\* GET /api/materials/stats among uploads and deletes.
NextStats ==
    \/ uploadStart
    \/ embedBatch
    \/ uploadAdd
    \/ deleteGet
    \/ deleteDocument
    \/ getStatsCount
    \/ getStatsList

SpecStats == InitServer /\ [][NextStats]_vars

\* hasRelevantMaterials called on the collection as uploads fill it.
NextRelevance ==
    \/ uploadStart
    \/ embedBatch
    \/ uploadAdd
    \/ hasRelevantMaterialsCall

SpecRelevance == InitServer /\ [][NextRelevance]_vars

\* chunkText of pdfProcessor.js on its own.
InitChunk ==
    /\ Init
    /\ serverImpl = "rag"

NextChunk ==
    \/ chunkTextCall
    \/ chunkTextPass
    \/ chunkTextReturn

SpecChunk == InitChunk /\ [][NextChunk]_vars

\* startInterview with clicks of the start button during setup.
NextOverlap ==
    \/ \E k \in Invocations : invStart(k)
    \/ \E k \in Invocations : invMicGranted(k)
    \/ \E k \in Invocations : invMicDenied(k)
    \/ \E k \in Invocations : invCredResponse(k)
    \/ \E k \in Invocations : invCredFails(k)
    \/ \E k \in Invocations : invSdpResponse(k)
    \/ \E k \in Invocations : invSdpFails(k)
    \/ invStop

SpecOverlap == InitServer /\ [][NextOverlap]_vars


\* ------------------------------------------------------------------ properties
Sent(ev) == Cardinality({i \in 1..Len(out) : out[i] = ev})

\* C1 as the specification states it: a start-talking received in
\* AwaitingAgentResponse emits no signal, does not mute playback and does not
\* move the state to ListeningToUser.
C1_IgnoredWhileAwaiting ==
    [][(TurnState = "AwaitingAgentResponse" /\ lastOp' = "startTalking")
          => (out' = <<>> /\ remoteMuted' = remoteMuted /\ TurnState' # "ListeningToUser")]_vars

\* C1: start-talking is accepted in every state of a live session but
\* ListeningToUser. In Idle, AwaitingAgentResponse and AgentSpeaking it sends
\* response.cancel then input_audio_buffer.commit, mutes playback and moves the
\* state to ListeningToUser; in ListeningToUser it sends nothing and the state stays.
C1_AcceptedUnlessTalking ==
    lastOp = "startTalking" =>
        /\ prevTurn \in {"Idle", "AwaitingAgentResponse", "AgentSpeaking"} =>
               /\ out = <<"response.cancel", "input_audio_buffer.commit">>
               /\ remoteMuted
               /\ TurnState = "ListeningToUser"
        /\ prevTurn = "ListeningToUser" =>
               /\ out = <<>>
               /\ TurnState = "ListeningToUser"

C1_StartedWhileAwaiting ==
    /\ lastOp = "startTalking"
    /\ prevTurn = "AwaitingAgentResponse"
    /\ TurnState = "ListeningToUser"
    /\ Sent("response.cancel") = 1

\* C2: a start-talking received in AgentSpeaking sends exactly one
\* response.cancel, which ends the agent turn in flight, mutes the remote audio,
\* enables the microphone track and moves the state to ListeningToUser.
C2_BargeIn ==
    (lastOp = "startTalking" /\ prevTurn = "AgentSpeaking") =>
        /\ Sent("response.cancel") = 1
        /\ agentTurn = "none"
        /\ staleTurn = turnNo
        /\ remoteMuted
        /\ micEnabled
        /\ TurnState = "ListeningToUser"

C2_BargedIn ==
    /\ lastOp = "startTalking"
    /\ prevTurn = "AgentSpeaking"
    /\ staleTurn = turnNo
    /\ staleFragNo >= 1
    /\ isTalking

\* C3: a response.audio_transcript.done that belongs to a turn already
\* cancelled appends no entry to the conversation log, does not replace the
\* displayed question and leaves the turn state as it was.
C3_StaleDoneDropped ==
    [][(lastOp' = "agentTranscriptDone" /\ evStale')
          => (logged' = <<>> /\ currentQuestion' = currentQuestion
              /\ TurnState' = TurnState)]_vars

\* C4: after an inbound error event, an error of the event channel, or the
\* teardown of the session, the turn state is closed, the local audio source
\* and the event channel are released, and the client is disconnected (so that
\* no handler acts on an event or sends a signal afterwards).
C4_ErrorOrTeardownCloses ==
    lastOp \in {"errorEvent", "dcOnError", "stopInterview"} =>
        /\ TurnState = "Closed"
        /\ ~localStream
        /\ dataChannel = "null"
        /\ ~isConnected

\* C5: when DELETE /api/materials/:id has completed, with no write to the
\* collection between its get and its delete, listDocuments has no row for the
\* documentId and the number of records is lower than before the delete by the
\* number of records that carried that documentId.
C5_DeletionComplete ==
    (reply.route = "delete" /\ reply.status = 200 /\ ~pendingDelete.interleaved) =>
        /\ pendingDelete.documentId = reply.documentId
        /\ \A i \in 1..Len(listDocuments(index)) :
               listDocuments(index)[i].documentId # reply.documentId
        /\ getStats(index).totalChunks
               = pendingDelete.countBefore - pendingDelete.ofDocumentBefore

C5_DeletedSeveral ==
    /\ reply.route = "delete"
    /\ reply.status = 200
    /\ ~pendingDelete.interleaved
    /\ pendingDelete.ofDocumentBefore >= 2
    /\ index # <<>>

\* C6: for every query, whatever the collection holds, when the query embedding
\* or the index query fails, retrieveContext does not throw: it returns
\* hasContext = false, an empty context, no sources and the error's message;
\* and every answer of POST /api/search is a success.
C6_RetrievalNeverRaises ==
    /\ \A query \in Queries, topK \in TopKs, failure \in RetrievalFailures,
          strict \in BOOLEAN :
           LET r == retrieveContext(query, failure # "no key",
                        IF failure = "embedding rejected" THEN "reject" ELSE "ok",
                        searchSimilar(index, EmbeddingOf(query), topK,
                                      failure # "index unreachable", strict))
           IN  (failure # "none" \/ (strict /\ topK <= 0)) =>
                   /\ ~r.threw
                   /\ ~r.value.hasContext
                   /\ r.value.context = <<>>
                   /\ r.value.sources = <<>>
                   /\ r.value.error # ""
    /\ reply.route = "search" =>
           /\ reply.status = 200
           /\ reply.error # "" => (~reply.hasContext /\ reply.sources = <<>>
                                    /\ reply.results = <<>>)

C6_SearchFailedOpen ==
    /\ reply.route = "search"
    /\ reply.status = 200
    /\ reply.error = "index unreachable"
    /\ ~reply.hasContext
    /\ index # <<>>

\* C10: an upload one of whose embedding batches failed has failed, holds no
\* vector of the batches that succeeded before, and wrote no record to the
\* collection; the step in which the batch fails leaves the collection as it was.
C10_IngestAtomicOrFailed ==
    \A u \in Slots :
        uploads[u].batchFailed =>
            /\ uploads[u].status = "failed"
            /\ uploads[u].embeddings = <<>>
            /\ uploads[u].written = 0

C10_LaterBatchFailed ==
    \E u \in Slots :
        /\ uploads[u].batchFailed
        /\ uploads[u].i = BatchSize
        /\ uploads[u].status = "failed"

Unenriched ==
    [base |-> BaseInstructions, appended |-> [sources |-> <<>>, content |-> <<>>]]

\* C7: when the bootstrap retrieval of POST /api/realtime/call fails or finds
\* nothing, the handler still submits exactly one session-creation request,
\* whose instructions are the template with nothing appended, and when the
\* collaborator accepts it the response carries the session id, the credential
\* and the expiry the collaborator returned.
C7_RetrievalFailureDoesNotAbort ==
    (lastOp = "createSession" /\ retrieval \in {"failed", "empty"}) =>
        /\ Len(sessionRequests) = 1
        /\ sessionRequests[1].instructions = Unenriched
        /\ sessionRequests[1].answer.kind = "ok" =>
               httpResponse = HttpResponse(200, "", "", SessionIdOf(nSessions),
                                           CredentialOf(nSessions), ExpiryOf(nSessions))

C7_CreatedWithoutContext ==
    /\ lastOp = "createSession"
    /\ retrieval = "failed"
    /\ Len(sessionRequests) = 1
    /\ httpResponse.status = 200
    /\ httpResponse.clientSecret = CredentialOf(nSessions)

\* C8: no value the session endpoint writes to the console is the ephemeral
\* credential of the response it returns.
C8_CredentialNeverLogged ==
    \A e \in serverLog :
        httpResponse.clientSecret # NoValue => e[2] # httpResponse.clientSecret

\* C9: when the collaborator answers the session-creation request with a
\* non-success status, the response of POST /api/realtime/call carries that
\* status and that body and no session id and no credential; and the client
\* that reads a non-success response has no peer connection, no event channel
\* and no microphone stream, and is not connected.
C9_CollaboratorRefusalAborts ==
    /\ (lastOp = "createSession" /\ Len(sessionRequests) = 1
            /\ sessionRequests[1].answer.kind = "notok") =>
           /\ httpResponse.status = sessionRequests[1].answer.status
           /\ httpResponse.details = sessionRequests[1].answer.body
           /\ httpResponse.error # ""
           /\ httpResponse.sessionId = NoValue
           /\ httpResponse.clientSecret = NoValue
    /\ (lastOp = "credResponse" /\ respStatus # 200) =>
           /\ ~peerConnection
           /\ dataChannel = "null"
           /\ ~localStream
           /\ ~isConnected
           /\ sessionId = NoValue
           /\ ephemeralKey = NoValue
           /\ pc = "idle"

C9_RefusedAndDisconnected ==
    /\ lastOp = "credResponse"
    /\ respStatus = 429
    /\ ~peerConnection
    /\ ~isConnected

\* C11: generateEmbeddings returns one vector per input text and the vector at
\* position i is the one the collaborator produced for input i, also when the
\* texts span several batches and their number is no multiple of the batch size;
\* while the loop runs, the vectors collected are those of the texts before the
\* next batch, in order.
C11_EmbeddingOrderPreserved ==
    \A u \in Slots :
        /\ uploads[u].status = "ready" => Len(uploads[u].embeddings) = uploads[u].n
        /\ uploads[u].status \in {"embedding", "ready"} =>
               /\ Len(uploads[u].embeddings) = Min(uploads[u].i, uploads[u].n)
               /\ \A k \in 1..Len(uploads[u].embeddings) :
                      uploads[u].embeddings[k] = EmbeddingOf(ChunksOf(uploads[u].n)[k])

C11_EmbeddedAcrossBatches ==
    \E u \in Slots :
        /\ uploads[u].status = "ready"
        /\ uploads[u].n = BatchSize + 1
        /\ uploads[u].n % BatchSize # 0
        /\ Len(uploads[u].embeddings) = BatchSize + 1

\* ---- chunkText
Covered(p) == \E k \in 1..Len(spans) : spans[k].from <= p /\ p < spans[k].to

Positions == 0..(Len(cleanText) - 1)

\* How far pass k moved startIndex.
Advance(k) == (IF k < Len(starts) THEN starts[k + 1] ELSE startIndex) - starts[k]

CeilDiv(a, b) == (a + b - 1) \div b

\* The least a pass that does not reach the end of the text moves startIndex.
LeastAdvance == Min(chunkSize - overlap, (chunkSize \div 2) + 1)

\* C12: every chunk chunkText has pushed is non-empty and at most chunkSize
\* characters long, for every text and every chunkSize > overlap >= 0.
C12_ChunksLengthBounded ==
    \A k \in 1..Len(chunkList) :
        /\ Len(chunkList[k]) >= 1
        /\ Len(chunkList[k]) <= chunkSize

C12_WindowDiscarded ==
    /\ chunkPc = "returned"
    /\ Len(chunkList) >= 2
    /\ Len(starts) > Len(chunkList)
    /\ \E k \in 1..Len(chunkList) : Len(chunkList[k]) = chunkSize

\* C13 as the specification states it: when chunkText has returned, every
\* character position of the normalized text lies inside a returned chunk.
C13_EveryPositionCovered ==
    chunkPc = "returned" => \A p \in Positions : Covered(p)

\* C13: when chunkText has returned, every chunk is a slice of the normalized
\* text, the slices follow one another in order, every character that is not
\* whitespace lies inside a chunk, and a character in no chunk is a space.
C13_NonSpaceCovered ==
    chunkPc = "returned" =>
        /\ \A k \in 1..Len(spans) :
               /\ chunkList[k] = Slice(cleanText, spans[k].from, spans[k].to)
               /\ k > 1 => spans[k - 1].from <= spans[k].from
        /\ \A p \in Positions : ~Covered(p) => cleanText[p + 1] = " "

C13_SpaceDropped ==
    /\ chunkPc = "returned"
    /\ Len(chunkList) >= 2
    /\ \E p \in Positions : ~Covered(p) /\ cleanText[p + 1] = " "
    /\ \E p \in Positions : Covered(p) /\ cleanText[p + 1] = " "

\* C14 as the specification states it: every pass of the loop moves startIndex
\* by at least chunkSize - overlap, and the loop makes at most
\* ceil(len / (chunkSize - overlap)) passes.
C14_AdvanceByStride ==
    chunkPc \in {"loop", "returned"} =>
        /\ \A k \in 1..Len(starts) : Advance(k) >= chunkSize - overlap
        /\ Len(starts) <= CeilDiv(Len(cleanText), chunkSize - overlap)

\* C14: the loop finishes: every pass moves startIndex forward and never past
\* the end of the text; every pass but the one that reaches the end moves it by
\* at least min(chunkSize - overlap, floor(chunkSize / 2) + 1); and the loop
\* makes at most ceil(len / that) passes.
C14_LoopTerminates ==
    chunkPc \in {"loop", "returned"} =>
        /\ startIndex <= Len(cleanText)
        /\ \A k \in 1..Len(starts) :
               /\ Advance(k) >= 1
               /\ (k < Len(starts) \/ startIndex < Len(cleanText))
                      => Advance(k) >= LeastAdvance
        /\ Len(starts) <= CeilDiv(Len(cleanText), LeastAdvance)
        /\ chunkPc = "returned" => startIndex = Len(cleanText)

C14_ShortAdvanceAtBreak ==
    /\ chunkPc = "returned"
    /\ Len(starts) >= 3
    /\ Advance(1) < chunkSize - overlap
    /\ Advance(1) >= LeastAdvance
    /\ Len(starts) > CeilDiv(Len(cleanText), chunkSize - overlap)

IsScenario ==
    /\ chunkPc = "returned"
    /\ Len(cleanText) = 2500
    /\ chunkSize = DefaultChunkSize
    /\ overlap = DefaultOverlap

\* C15 as the specification states it: a normalized text of 2500 characters
\* chunked with 1000 and 200 gives exactly 3 chunks, each of at most 1000
\* characters, which cover every character position.
C15_ThreeChunks ==
    IsScenario =>
        /\ Len(chunkList) = 3
        /\ \A k \in 1..Len(chunkList) : Len(chunkList[k]) <= 1000
        /\ \A p \in Positions : Covered(p)

\* C15: a normalized text of 2500 characters chunked with 1000 and 200 gives 3
\* chunks when it holds no '.', and 3 or 4 chunks otherwise; each chunk has at
\* most 1000 characters, and every character that is not whitespace lies
\* inside a chunk.
C15_ThreeOrFourChunks ==
    IsScenario =>
        /\ Len(chunkList) \in {3, 4}
        /\ (\A p \in Positions : cleanText[p + 1] # ".") => Len(chunkList) = 3
        /\ \A k \in 1..Len(chunkList) :
               Len(chunkList[k]) >= 1 /\ Len(chunkList[k]) <= 1000
        /\ \A p \in Positions : cleanText[p + 1] # " " => Covered(p)

C15_FourChunks ==
    /\ IsScenario
    /\ Len(chunkList) = 4
    /\ \E p \in Positions : cleanText[p + 1] = "."

\* ---- the collection
RecordsOf(documentId) == {i \in 1..Len(index) : index[i].documentId = documentId}

PresentIds == {index[i].documentId : i \in 1..Len(index)}

\* C16: for every documentId present in the collection, the chunkIndex values
\* of its records are exactly 0..n-1, once each, the id of each record is the
\* documentId with its chunkIndex, and each record stores totalChunks = n.
C16_ChunkRecordInvariant ==
    \A d \in PresentIds :
        LET n == Cardinality(RecordsOf(d))
        IN  /\ {index[i].chunkIndex : i \in RecordsOf(d)} = 0..(n - 1)
            /\ \A i \in RecordsOf(d) :
                   /\ index[i].id = ChunkId(d, index[i].chunkIndex)
                   /\ index[i].totalChunks = n

C18_QueryBoundedAndTotal ==
    \A query \in Queries, topK \in TopKs, strict \in BOOLEAN :
        LET searched == searchSimilar(index, EmbeddingOf(query), topK, TRUE, strict)
        IN  /\ ~searched.threw
            /\ Len(searched.value) <= Max(topK, 0)
            /\ (topK <= 0 \/ index = <<>>) => searched.value = <<>>

NonIncreasing(scores) ==
    \A i \in 1..(Len(scores) - 1) : scores[i] >= scores[i + 1]

\* C19: the records searchSimilar returns are in non-decreasing order of
\* distance, and the relevanceScore values of retrieveContext's results, each
\* 1 - distance, do not increase from first to last.
C19_RankingMonotonic ==
    /\ \A query \in Queries, topK \in TopKs :
           LET searched == searchSimilar(index, EmbeddingOf(query), topK, TRUE, FALSE)
               r == retrieveContext(query, TRUE, "ok", searched)
           IN  /\ \A i \in 1..(Len(searched.value) - 1) :
                      searched.value[i].distance <= searched.value[i + 1].distance
               /\ Len(r.value.results) = Len(searched.value)
               /\ \A i \in 1..Len(r.value.results) :
                      r.value.results[i].relevanceScore = 1 - searched.value[i].distance
               /\ NonIncreasing([i \in 1..Len(r.value.results) |->
                                     r.value.results[i].relevanceScore])
    /\ reply.route = "search" =>
           NonIncreasing([i \in 1..Len(reply.results) |-> reply.results[i].relevanceScore])

C19_RankedUnequal ==
    /\ reply.route = "search"
    /\ Len(reply.results) >= 2
    /\ \E i \in 1..(Len(reply.results) - 1) :
           reply.results[i].relevanceScore > reply.results[i + 1].relevanceScore

FirstRecordOf(documentId) ==
    CHOOSE i \in RecordsOf(documentId) : \A j \in RecordsOf(documentId) : i <= j

\* C20: listDocuments returns one row for each documentId that has a record in
\* the collection and no other row, and the fileName, uploadedAt and
\* totalChunks of a row are those of the first record of that documentId.
C20_OneRowPerDocument ==
    LET rows == listDocuments(index)
    IN  /\ {rows[i].documentId : i \in 1..Len(rows)} = PresentIds
        /\ Len(rows) = Cardinality(PresentIds)
        /\ \A i \in 1..Len(rows) :
               LET first == index[FirstRecordOf(rows[i].documentId)]
               IN  /\ rows[i].fileName = first.fileName
                   /\ rows[i].uploadedAt = first.uploadedAt
                   /\ rows[i].totalChunks = first.totalChunks

C20_RecordsDisagree ==
    /\ Cardinality(PresentIds) >= 1
    /\ \E i, j \in 1..Len(index) :
           /\ i < j
           /\ index[i].documentId = index[j].documentId
           /\ index[i].fileName # index[j].fileName
           /\ index[i].totalChunks # index[j].totalChunks
           /\ i = FirstRecordOf(index[i].documentId)
           /\ \E k \in 1..Len(listDocuments(index)) :
                  /\ listDocuments(index)[k].documentId = index[i].documentId
                  /\ listDocuments(index)[k].fileName = index[i].fileName

\* C21: what getStats returns is consistent with one state of the collection:
\* totalChunks is the number of records of the state its documents list was read
\* from, documents is listDocuments() of that state, and totalDocuments is the
\* number of rows of documents.
C21_StatsOfOneIndexState ==
    [][(lastCall.pc = "counted" /\ lastCall'.pc = "returned") =>
          /\ lastCall'.fn = "getStats"
          /\ lastCall'.totalChunks = Len(index)
          /\ lastCall'.totalDocuments = Len(lastCall'.documents)
          /\ lastCall'.documents = listDocuments(index)]_vars

\* C22: hasRelevantMaterials returns true exactly when no embedding or index
\* failure occurred, the collection holds a record, and 1 - distance of the
\* nearest record is at least the threshold; in every other case it returns
\* false, and it never throws.
C22_RelevanceFailsClosed ==
    /\ \A query \in Queries, threshold \in Thresholds, failure \in RetrievalFailures :
           LET apiKey == failure # "no key"
               embedOutcome == IF failure = "embedding rejected" THEN "reject" ELSE "ok"
               up == failure # "index unreachable"
               nearest == collQuery(index, EmbeddingOf(query), 1)
               result == hasRelevantMaterials(query, threshold, apiKey, embedOutcome,
                             searchSimilar(index, EmbeddingOf(query), 1, up, TRUE))
           IN  /\ result \in BOOLEAN
               /\ result <=>
                      /\ failure = "none"
                      /\ nearest # <<>>
                      /\ 1 - Distance(nearest[1].embedding, EmbeddingOf(query)) >= threshold
    /\ (lastCall.fn = "hasRelevantMaterials" /\ lastCall.failure # "none") => ~lastCall.result

C22_FailedClosedOnRelevantIndex ==
    /\ lastCall.fn = "hasRelevantMaterials"
    /\ lastCall.failure # "none"
    /\ ~lastCall.result
    /\ index # <<>>
    /\ hasRelevantMaterials(lastCall.query, lastCall.threshold, TRUE, "ok",
           searchSimilar(index, EmbeddingOf(lastCall.query), 1, TRUE, TRUE))

\* C23: the onopen of the event channel finds the controller with no turn
\* begun, sends exactly one response.create and nothing else, and leaves the
\* state AwaitingAgentResponse; and a handler that starts before the channel is
\* open sends neither response.create nor response.cancel.
C23_OpeningTurnRequested ==
    /\ lastOp = "dcOnOpen" =>
           /\ out = <<"response.create">>
           /\ agentTurn = "requested"
           /\ TurnState = "AwaitingAgentResponse"
    /\ (lastOp # "dcOnOpen" /\ prevTurn \in {"Closed", "Connecting"}) =>
           (Sent("response.create") = 0 /\ Sent("response.cancel") = 0)

\* C24: a stop-talking received in ListeningToUser unmutes the remote audio,
\* sends exactly one response.create and leaves the state AwaitingAgentResponse;
\* received in any other state it sends nothing and changes nothing.
C24_StopTalkingOnlyWhenListening ==
    [][lastOp' = "stopTalking" =>
          IF TurnState = "ListeningToUser"
          THEN /\ out' = <<"response.create">>
               /\ ~remoteMuted'
               /\ TurnState' = "AwaitingAgentResponse"
          ELSE /\ out' = <<>>
               /\ UNCHANGED <<clientVars, remoteVars>>]_vars

\* C25: a response.audio_transcript.done of the agent turn in flight appends
\* exactly one entry to the conversation log, the examiner's, holding the
\* transcript of all the fragments of the turn, empties the accumulation buffer
\* and leaves the state Idle.
C25_DoneLogsAndReturnsToIdle ==
    [][(lastOp' = "agentTranscriptDone" /\ ~evStale') =>
          /\ logged' = <<LogEntry("examiner", Transcript(turnNo, fragNo))>>
          /\ currentAssistantTranscript' = <<>>
          /\ TurnState' = "Idle"]_vars

\* C26: the accumulation buffer holds the fragments of one agent turn only, in
\* the order they arrived: what an earlier turn accumulated, completed,
\* cancelled by a barge-in or cut off by a teardown, is no longer in the buffer
\* when a fragment of a later turn is in it.
C26_BufferOfOneTurn ==
    /\ \A i, j \in 1..Len(currentAssistantTranscript) :
           currentAssistantTranscript[i][1] = currentAssistantTranscript[j][1]
    /\ \A i \in 1..(Len(currentAssistantTranscript) - 1) :
           currentAssistantTranscript[i][2] < currentAssistantTranscript[i + 1][2]

\* C27: a response.audio_transcript.delta received in AwaitingAgentResponse or
\* AgentSpeaking is appended to the accumulation buffer and leaves the state
\* AgentSpeaking; received in any other state it leaves the buffer as it was.
C27_DeltaOnlyInAgentTurn ==
    [][lastOp' = "agentTranscriptDelta" =>
          IF TurnState \in {"AwaitingAgentResponse", "AgentSpeaking"}
          THEN /\ Len(currentAssistantTranscript') = Len(currentAssistantTranscript) + 1
               /\ TurnState' = "AgentSpeaking"
          ELSE currentAssistantTranscript' = currentAssistantTranscript]_vars

\* C28: a completed user-speech transcription appends exactly one entry, the
\* user's, to the conversation log in whatever state it arrives, sends nothing,
\* and leaves the turn state, the talking flag, the mute setting and the
\* accumulation buffer as they were.
C28_UserTranscriptOnlyLogs ==
    [][lastOp' = "userTranscriptDone" =>
          /\ Len(logged') = 1
          /\ logged'[1].role = "user"
          /\ out' = <<>>
          /\ TurnState' = TurnState
          /\ isTalking' = isTalking
          /\ remoteMuted' = remoteMuted
          /\ currentAssistantTranscript' = currentAssistantTranscript]_vars

C28_UserTranscriptWhileAgentSpeaks ==
    /\ lastOp = "userTranscriptDone"
    /\ prevTurn = "AgentSpeaking"
    /\ TurnState = "AgentSpeaking"
    /\ currentAssistantTranscript # <<>>
    /\ logged = <<LogEntry("user", <<"user", 0, 0>>)>>

\* C29 as the specification states it: a start-talking sends response.cancel
\* only when it is received in AgentSpeaking.
C29_CancelOnlyWhenSpeaking ==
    (lastOp = "startTalking" /\ Sent("response.cancel") >= 1) => prevTurn = "AgentSpeaking"

\* C29: a start-talking sends exactly one response.cancel whenever it is accepted
\* on an open channel, in Idle and AwaitingAgentResponse as in AgentSpeaking, and
\* none otherwise; sent from Idle it finds no agent turn to cancel.
C29_CancelWheneverAccepted ==
    lastOp = "startTalking" =>
        /\ Sent("response.cancel") =
               (IF prevTurn \in {"Idle", "AwaitingAgentResponse", "AgentSpeaking"} THEN 1 ELSE 0)
        /\ (Sent("response.cancel") = 1) => (out[1] = "response.cancel" /\ isTalking)
        /\ prevTurn = "Idle" => agentTurn = "none"

C29_CancelSentFromIdle ==
    /\ lastOp = "startTalking"
    /\ prevTurn = "Idle"
    /\ Sent("response.cancel") = 1
    /\ TurnState = "ListeningToUser"

\* C30: no credential is presented in two offer/answer exchanges, every
\* credential presented is one the session endpoint returned, and each exchange
\* presents the credential of a session created after the one the exchange
\* before it presented.
C30_CredentialSingleUse ==
    /\ \A i, j \in 1..Len(usedKeys) : usedKeys[i] = usedKeys[j] => i = j
    /\ \A i \in 1..Len(usedKeys) : \E n \in 1..nSessions : usedKeys[i] = CredentialOf(n)
    /\ \A i \in 1..(Len(usedKeys) - 1) : usedKeys[i][2] < usedKeys[i + 1][2]
    /\ lastOp = "credResponse" /\ pc = "sdp" =>
           usedKeys[Len(usedKeys)] = CredentialOf(nSessions)

C30_SecondAttemptFreshCredential ==
    /\ Len(usedKeys) = 2
    /\ lastOp = "credResponse"
    /\ pc = "sdp"
    /\ ephemeralKey = CredentialOf(2)

KeyRequired == "API Key required for generating embeddings"

\* C31: without an API key no collaborator is contacted: an upload or a search
\* that fails for lack of the key has sent no request, retrieveContext sends
\* none whatever the embedding collaborator would have answered, and the
\* session endpoint of either server file answers without submitting a
\* session-creation request.
C31_NoKeyNoRequest ==
    /\ reply.error = KeyRequired => calls = <<>>
    /\ \A embedOutcome \in {"ok", "reject"} : retrieveContextCalls(FALSE, embedOutcome) = <<>>
    /\ \A searched \in BootstrapSearches, answer \in CollabAnswers, n \in 1..MaxSessions :
           /\ createSession(FALSE, "", retrieveContext(BootstrapQuery, FALSE, "ok", searched),
                            answer, n).requests = <<>>
           /\ createSession(FALSE, "", retrieveContext(BootstrapQuery, FALSE, "ok", searched),
                            answer, n).response.status = 401
           /\ createSessionBasic(FALSE, "", answer, n).requests = <<>>

C31_SearchedWithoutKey ==
    /\ reply.route = "search"
    /\ reply.error = KeyRequired
    /\ calls = <<>>
    /\ index # <<>>

OthersOf(idx, documentId) ==
    LET Other(r) == r.documentId # documentId
    IN SelectSeq(idx, Other)

\* C32: when deleteDocument(id) returns, every record of every other documentId
\* is in the collection as it was, and when no record carried id, at its get
\* and at its return, the call succeeded and the collection is as it was.
C32_DeleteTouchesOnlyItsDocument ==
    [][(pendingDelete.active /\ ~pendingDelete'.active) =>
          /\ OthersOf(index', pendingDelete.documentId)
                 = OthersOf(index, pendingDelete.documentId)
          /\ \A i \in 1..Len(index') : \E j \in 1..Len(index) : index'[i] = index[j]
          /\ (pendingDelete.ids = {} /\ CountOfDocument(index, pendingDelete.documentId) = 0) =>
                 (index' = index /\ reply'.status = 200 /\ reply'.route = "delete")]_vars

C32_DeletedOneOfTwoDocuments ==
    /\ reply.route = "delete"
    /\ reply.status = 200
    /\ ~pendingDelete.active
    /\ pendingDelete.ofDocumentBefore >= 1
    /\ CountOfDocument(index, reply.documentId) = 0
    /\ OthersOf(index, reply.documentId) # <<>>

Overrides == {"", "CALLER_INSTRUCTIONS"}
NothingAppended == [sources |-> <<>>, content |-> <<>>]

\* C33: the instructions the session endpoint of server.js submits are the
\* caller's override when one is given and the template otherwise, followed by
\* formatContextForAI of the bootstrap retrieval exactly when it returned
\* hasContext = true; formatContextForAI of a result without context is empty
\* and then nothing is appended.
C33_InstructionsResolved ==
    /\ \A override \in Overrides, embedOutcome \in {"ok", "reject"},
          searched \in BootstrapSearches, answer \in CollabAnswers :
           LET retrieved == retrieveContext(BootstrapQuery, TRUE, embedOutcome, searched)
               r == createSession(TRUE, override, retrieved, answer, nSessions + 1)
               sent == r.requests[1].instructions
           IN  /\ Len(r.requests) = 1
               /\ sent.base = (IF override = "" THEN BaseInstructions ELSE override)
               /\ sent.appended = formatContextForAI(retrieved.value)
               /\ (sent.appended # NothingAppended) <=> retrieved.value.hasContext
               /\ retrieved.value.hasContext =>
                      /\ sent.appended.sources = retrieved.value.sources
                      /\ sent.appended.content = retrieved.value.context
    /\ formatContextForAI(NoContext("")) = NothingAppended
    /\ (serverImpl = "rag" /\ sessionRequests # <<>>) =>
           /\ sessionRequests[1].instructions.base = BaseInstructions
           /\ (sessionRequests[1].instructions.appended # NothingAppended)
                  <=> retrieval = "context"

C33_SubmittedWithContext ==
    /\ serverImpl = "rag"
    /\ lastOp = "createSession"
    /\ retrieval = "context"
    /\ Len(sessionRequests) = 1
    /\ sessionRequests[1].instructions.base = BaseInstructions
    /\ Len(sessionRequests[1].instructions.appended.sources) = 2

ShortTexts == UNION {[1..n -> Chars] : n \in 1..3}

\* A run of newlines alone between two other characters.
NewlineRunInside(text) ==
    /\ \A i \in 1..Len(text) : text[i] # " "
    /\ \E i \in 2..(Len(text) - 1) :
           text[i] = "\n" /\ ~IsSpace(text[1]) /\ ~IsSpace(text[Len(text)])

\* C34: normalization turns a run of spaces into one space and a run of newlines
\* into one newline; and a pass over a window whose right edge is inside the
\* text, when the later of the last '.' and the last newline of the window lies
\* past half of chunkSize, ends the chunk at that character and starts the next
\* window just past it, and otherwise advances the start by chunkSize - overlap.
C34_BoundaryRule ==
    /\ \A text \in ShortTexts :
           NewlineRunInside(text) =>
               /\ \E k \in 1..Len(Normalize(text)) : Normalize(text)[k] = "\n"
               /\ \A k \in 1..Len(Normalize(text)) : Normalize(text)[k] # " "
    /\ [][(chunkPc = "loop" /\ starts' # starts
             /\ startIndex + chunkSize < Len(cleanText)) =>
             LET window == SubSeq(cleanText, startIndex + 1, startIndex + chunkSize)
                 breakPoint == BreakPoint(window)
             IN  IF 2 * breakPoint > chunkSize
                 THEN /\ startIndex' = startIndex + breakPoint + 1
                      /\ KeepsChunk(SubSeq(window, 1, breakPoint + 1)) =>
                             chunkList' = Append(chunkList, Trim(SubSeq(window, 1, breakPoint + 1)))
                 ELSE /\ startIndex' = startIndex + chunkSize - overlap
                      /\ KeepsChunk(window) => chunkList' = Append(chunkList, Trim(window))]_vars

\* C35: an upload that succeeds is given a documentId that no record of the
\* collection carries, and none of the chunk ids it writes is in the collection
\* already, also when another upload got its documentId in the same millisecond.
C35_FreshDocumentId ==
    [][\A u \in Slots :
          (uploads[u].status = "ready" /\ uploads'[u].status = "done") =>
              /\ reply'.route = "upload"
              /\ CountOfDocument(index, reply'.documentId) = 0
              /\ \A i \in 0..(uploads[u].n - 1) :
                     ChunkId(reply'.documentId, i) \notin IdsOf(index)]_vars

\* C36: in every state of the client the remote audio is muted if and only if
\* the talking flag is set.
C36_MutedIffTalking == remoteMuted <=> isTalking

\* C37: at most one session is being set up or live: never a second stream, a second
\* connection or a second credential, and every open stream and open connection is
\* the one the client state references.
C37_OneSessionAtATime ==
    /\ openStreams <= 1
    /\ openConns <= 1
    /\ Cardinality({k \in Invocations : invocations[k].key}) <= 1
    /\ openStreams = (IF localStream THEN 1 ELSE 0)
    /\ openConns = (IF peerConnection THEN 1 ELSE 0)

\* C38: after every step, a client marked connected has its event channel open; an
\* accepted start-talking sends response.cancel and input_audio_buffer.commit, and
\* an accepted stop-talking sends its response.create.
C38_ConnectedChannelOpen ==
    [][/\ isConnected' => dataChannel' = "open"
       /\ (lastOp' = "startTalking" /\ isConnected /\ ~isTalking)
              => out' = <<"response.cancel", "input_audio_buffer.commit">>
       /\ (lastOp' = "stopTalking" /\ isConnected /\ isTalking)
              => out' = <<"response.create">>]_vars

\* C39 as the specification states it: the local microphone track is enabled only
\* while the controller is in ListeningToUser.
C39_MicOnlyWhileListening == micEnabled => TurnState = "ListeningToUser"

\* C39: the local microphone track is enabled exactly while the client holds a live
\* local stream, from the grant of the microphone to cleanup: it is enabled in
\* ListeningToUser, and also before the first start-talking and after a stop-talking.
C39_MicEnabledWhileStreamLive ==
    /\ micEnabled <=> localStream
    /\ TurnState = "ListeningToUser" => micEnabled
    /\ (lastOp = "stopTalking" /\ prevTurn = "ListeningToUser") => micEnabled

C39_StoppedTalkingMicStillOn ==
    /\ lastOp = "stopTalking"
    /\ prevTurn = "ListeningToUser"
    /\ TurnState = "AwaitingAgentResponse"
    /\ micEnabled

\* C40: after a step of startInterview failed (microphone denied, credential
\* request rejected or answered with an error, offer/answer exchange rejected) the
\* client is disconnected: no local stream, no peer connection, no event channel,
\* connected and talking flags false, session id cleared, and startInterview can
\* run again.
StartFailures == {"micDenied", "credFetchFails", "sdpResponse", "credResponse"}

C40_FailedStartDisconnects ==
    (lastOp \in StartFailures /\ logged = <<SystemEntry("Error")>>) =>
        /\ ~localStream
        /\ ~micEnabled
        /\ ~peerConnection
        /\ dataChannel = "null"
        /\ ~isConnected
        /\ ~isTalking
        /\ sessionId = NoValue
        /\ ENABLED startInterview

C40_ExchangeRejectedAfterSetup ==
    /\ lastOp = "sdpResponse"
    /\ logged = <<SystemEntry("Error")>>
    /\ prevTurn = "Connecting"
    /\ ~localStream
    /\ dataChannel = "null"

====
